---- MODULE Spec2Model ----
(***************************************************************************)
(* rhask: the construction state machine (BuildStack), the TaskRegistry,   *)
(* the name resolver and the run phase that follows script evaluation.     *)
(*                                                                         *)
(* Strings are sequences of one-character strings, so that trim, the       *)
(* '.'-join of build_child_path, contains('.') and leaf_name are computed  *)
(* as the code computes them.  Option<T> is a sequence of length 0 (None)  *)
(* or 1 (Some).  An IndexMap is a sequence of [key, value] records in      *)
(* insertion order.                                                        *)
(***************************************************************************)
EXTENDS Naturals, Sequences, FiniteSets

VARIABLES
    context_stack,  \* BuildStack.context_stack
    script_root,    \* BuildStack.script_root : Option
    tasks,          \* TaskRegistry.tasks : IndexMap<String, Task>
    groups,         \* TaskRegistry.groups : IndexMap<String, Group>
    root_entries,   \* TaskRegistry.root_entries
    default_task,   \* TaskRegistry.default_task : Option<String>
    phase,          \* "script" while run_script evaluates, "run" afterwards
    contexts,       \* ExecutionState.contexts
    lookup,         \* the TaskLookup of the last resolve_task call
    last,           \* the last call: its name, argument and Result
    opened,         \* number of frames pushed so far
    shadow,         \* the call sequence so far, as the scopes it names
    base_dir,       \* ExecutionState.base_dir
    cwd,            \* the working directory of the process
    scopes,         \* the live ActionScope values, innermost last, each with
                    \* the action body running under it
    parsed,         \* the last parse_cli_arguments call and its Result
    prepared,       \* the last prepare_arguments_from_parts call and its Result
    spawned,        \* the directories in which exec() has run a command
    launch_dir,     \* the working directory at the last run_task call
    guards,         \* the kinds of the live ScopeGuard values, innermost last
    held,           \* the mutexes the thread holds, in the order it took them
    calls           \* the native calls in progress, innermost last, each
                    \* with its position in its body

vars == <<context_stack, script_root, tasks, groups, root_entries, default_task,
          phase, contexts, lookup, last, opened, shadow, base_dir, cwd, scopes,
          parsed, prepared, spawned, launch_dir, guards, held, calls>>

execvars == <<base_dir, cwd, scopes, spawned, launch_dir, guards, held,
              calls>>

argvars == <<parsed, prepared>>

-----------------------------------------------------------------------------
(* Bounds and input sets *)

MaxScopes == 2

MaxTasks == 3

MaxArgs == 3

MaxNamed == 2

MaxParams == 2

MaxDepth == 2

None == <<>>

Some(x) == <<x>>

NameInputs == { <<" ">>, <<"a">>, <<" ", "b", " ">>, <<"a", ".", "b">> }

DescInputs == { <<"d">> }

ActionInputs == { "f" }

DefaultInputs == { <<" ">>, <<"a">>, <<" ", "b", " ">> }

-----------------------------------------------------------------------------
(* String primitives *)

IsWhitespace(c) == c = " "

RECURSIVE TrimStart(_)
TrimStart(s) ==
    IF s # <<>> /\ IsWhitespace(Head(s)) THEN TrimStart(Tail(s)) ELSE s

RECURSIVE TrimEnd(_)
TrimEnd(s) ==
    IF s # <<>> /\ IsWhitespace(s[Len(s)])
    THEN TrimEnd(SubSeq(s, 1, Len(s) - 1))
    ELSE s

trim(s) == TrimEnd(TrimStart(s))

contains_dot(s) == \E i \in 1..Len(s) : s[i] = "."

SetMax(S) == CHOOSE m \in S : \A x \in S : x <= m

leaf_name(path) ==
    LET dots == { i \in 1..Len(path) : path[i] = "." }
    IN  IF dots = {} THEN path
        ELSE SubSeq(path, SetMax(dots) + 1, Len(path))

-----------------------------------------------------------------------------
(* Results and error messages: a message is its format string and the value
   substituted for its placeholder. *)

Msg(fmt, arg) == [fmt |-> fmt, arg |-> arg]

NoErr == Msg("", <<>>)

context_error(fmt, arg) == Msg(fmt, arg)

-----------------------------------------------------------------------------
(* The data model *)

DefaultTask ==
    [description |-> None, actions |-> None, params |-> <<>>, working_dir |-> None]

DefaultGroup == [description |-> None, entries |-> <<>>]

TaskEntry(path) == [kind |-> "Task", path |-> path]

GroupEntry(path) == [kind |-> "Group", path |-> path]

RootFrame == [kind |-> "Root", full_path |-> <<>>, task |-> DefaultTask,
              group |-> DefaultGroup]

TaskBuilderNew(full_path) ==
    [kind |-> "Task", full_path |-> full_path, task |-> DefaultTask,
     group |-> DefaultGroup]

GroupBuilderNew(full_path) ==
    [kind |-> "Group", full_path |-> full_path, task |-> DefaultTask,
     group |-> DefaultGroup]

-----------------------------------------------------------------------------
(* IndexMap *)

Keys(m) == { m[i].key : i \in 1..Len(m) }

contains_key(m, k) == \E i \in 1..Len(m) : m[i].key = k

Get(m, k) == (CHOOSE i \in 1..Len(m) : m[i].key = k)

Value(m, k) == m[Get(m, k)].value

IndexMapInsert(m, k, v) ==
    IF contains_key(m, k)
    THEN [m EXCEPT ![Get(m, k)] = [key |-> k, value |-> v]]
    ELSE Append(m, [key |-> k, value |-> v])

insert_task_entry(m, full_path, task) == IndexMapInsert(m, full_path, task)

insert_group_entry(m, full_path, group) == IndexMapInsert(m, full_path, group)

contains_task(path) == contains_key(tasks, path)

contains_group(path) == contains_key(groups, path)

-----------------------------------------------------------------------------
(* BuildStack *)

Ok == [ok |-> TRUE, err |-> NoErr]

Err(m) == [ok |-> FALSE, err |-> m]

Top(stack) == stack[Len(stack)]

Pop(stack) == SubSeq(stack, 1, Len(stack) - 1)

StackEmptyMsg == context_error("context mismatch: context stack is empty.", <<>>)

NestedTaskMsg == context_error("Nested task() calls are not supported.", <<>>)

(* Faulty variant: the group's path is not prefixed to the child's name *)
build_child_path_unjoined(name) ==
    IF context_stack = <<>>
    THEN [ok |-> FALSE, err |-> StackEmptyMsg, path |-> <<>>]
    ELSE IF Top(context_stack).kind = "Task"
    THEN [ok |-> FALSE, err |-> NestedTaskMsg, path |-> <<>>]
    ELSE [ok |-> TRUE, err |-> NoErr, path |-> name]

(* Faulty variant: a task frame on top is treated as a group frame *)
build_child_path_nested(name) ==
    IF context_stack = <<>>
    THEN [ok |-> FALSE, err |-> StackEmptyMsg, path |-> <<>>]
    ELSE IF Top(context_stack).kind = "Root"
    THEN [ok |-> TRUE, err |-> NoErr, path |-> name]
    ELSE [ok |-> TRUE, err |-> NoErr,
          path |-> Top(context_stack).full_path \o <<".">> \o name]

build_child_path(name) ==
    IF context_stack = <<>>
    THEN [ok |-> FALSE, err |-> StackEmptyMsg, path |-> <<>>]
    ELSE CASE Top(context_stack).kind = "Root" ->
                [ok |-> TRUE, err |-> NoErr, path |-> name]
           [] Top(context_stack).kind = "Group" ->
                [ok |-> TRUE, err |-> NoErr,
                 path |-> Top(context_stack).full_path \o <<".">> \o name]
           [] Top(context_stack).kind = "Task" ->
                [ok |-> FALSE, err |-> NestedTaskMsg, path |-> <<>>]

OpenFrame(kind, full_path) ==
    \E i \in 1..Len(context_stack) :
        /\ context_stack[i].kind = kind
        /\ context_stack[i].full_path = full_path

(* Faulty variant: only the open frames are searched, not the finalized registry *)
ensure_task_name_available_open_only(full_path) ==
    IF OpenFrame("Task", full_path)
    THEN Err(context_error("Task '{}' is already defined.", full_path))
    ELSE IF OpenFrame("Group", full_path)
    THEN Err(context_error("Task '{}' is already defined as a group.", full_path))
    ELSE Ok

ensure_task_name_available(full_path) ==
    IF contains_task(full_path) \/ OpenFrame("Task", full_path)
    THEN Err(context_error("Task '{}' is already defined.", full_path))
    ELSE IF contains_group(full_path) \/ OpenFrame("Group", full_path)
    THEN Err(context_error("Task '{}' is already defined as a group.", full_path))
    ELSE Ok

(* Faulty variant: a group's path is checked against groups only *)
ensure_group_name_available_groups_only(full_path) ==
    IF contains_group(full_path) \/ OpenFrame("Group", full_path)
    THEN Err(context_error("Group '{}' is already defined.", full_path))
    ELSE Ok

ensure_group_name_available(full_path) ==
    IF contains_group(full_path) \/ OpenFrame("Group", full_path)
    THEN Err(context_error("Group '{}' is already defined.", full_path))
    ELSE IF contains_task(full_path) \/ OpenFrame("Task", full_path)
    THEN Err(context_error("Group '{}' is already defined as a task.", full_path))
    ELSE Ok

(* Faulty variant: the task frame is pushed without the availability check *)
begin_task_unchecked(name) ==
    LET n == trim(name) IN
    IF n = <<>>
    THEN [ok |-> FALSE, err |-> context_error("Task name cannot be empty.", <<>>),
          stack |-> context_stack]
    ELSE LET p == build_child_path(n) IN
         IF ~p.ok
         THEN [ok |-> FALSE, err |-> p.err, stack |-> context_stack]
         ELSE [ok |-> TRUE, err |-> NoErr,
               stack |-> Append(context_stack, TaskBuilderNew(p.path))]

(* begin_task / begin_group: the Result and the frame stack afterwards *)
begin_task(name) ==
    LET n == trim(name) IN
    IF n = <<>>
    THEN [ok |-> FALSE, err |-> context_error("Task name cannot be empty.", <<>>),
          stack |-> context_stack]
    ELSE LET p == build_child_path(n) IN
         IF ~p.ok
         THEN [ok |-> FALSE, err |-> p.err, stack |-> context_stack]
         ELSE LET a == ensure_task_name_available(p.path) IN
              IF ~a.ok
              THEN [ok |-> FALSE, err |-> a.err, stack |-> context_stack]
              ELSE [ok |-> TRUE, err |-> NoErr,
                    stack |-> Append(context_stack, TaskBuilderNew(p.path))]

begin_group(name) ==
    LET n == trim(name) IN
    IF n = <<>>
    THEN [ok |-> FALSE, err |-> context_error("Group name cannot be empty.", <<>>),
          stack |-> context_stack]
    ELSE LET p == build_child_path(n) IN
         IF ~p.ok
         THEN [ok |-> FALSE, err |-> p.err, stack |-> context_stack]
         ELSE LET a == ensure_group_name_available(p.path) IN
              IF ~a.ok
              THEN [ok |-> FALSE, err |-> a.err, stack |-> context_stack]
              ELSE [ok |-> TRUE, err |-> NoErr,
                    stack |-> Append(context_stack, GroupBuilderNew(p.path))]

(* Faulty variant: the entry is put in front of the parent's entries *)
attach_entry_to_parent_prepend(stack, roots, entry) ==
    IF stack = <<>>
    THEN [ok |-> FALSE, err |-> StackEmptyMsg, stack |-> stack, roots |-> roots]
    ELSE IF Top(stack).kind = "Root"
    THEN [ok |-> TRUE, err |-> NoErr, stack |-> stack,
          roots |-> <<entry>> \o roots]
    ELSE IF Top(stack).kind = "Group"
    THEN [ok |-> TRUE, err |-> NoErr,
          stack |-> [stack EXCEPT ![Len(stack)].group.entries = <<entry>> \o @],
          roots |-> roots]
    ELSE [ok |-> FALSE, err |-> NestedTaskMsg, stack |-> stack, roots |-> roots]

(* attach_entry_to_parent on the stack left by the pop *)
attach_entry_to_parent(stack, roots, entry) ==
    IF stack = <<>>
    THEN [ok |-> FALSE, err |-> StackEmptyMsg, stack |-> stack, roots |-> roots]
    ELSE CASE Top(stack).kind = "Root" ->
                [ok |-> TRUE, err |-> NoErr, stack |-> stack,
                 roots |-> Append(roots, entry)]
           [] Top(stack).kind = "Group" ->
                [ok |-> TRUE, err |-> NoErr,
                 stack |-> [stack EXCEPT ![Len(stack)].group.entries =
                                            Append(@, entry)],
                 roots |-> roots]
           [] Top(stack).kind = "Task" ->
                [ok |-> FALSE, err |-> NestedTaskMsg, stack |-> stack,
                 roots |-> roots]

EndResult(ok, err, stack, t, g, roots) ==
    [ok |-> ok, err |-> err, stack |-> stack, tasks |-> t, groups |-> g,
     roots |-> roots]

(* Faulty variant: the popped frame is finalized as a task whatever its kind *)
end_task_any_frame ==
    IF context_stack = <<>>
    THEN EndResult(FALSE, StackEmptyMsg, context_stack, tasks, groups, root_entries)
    ELSE LET top == Top(context_stack)
             rest == Pop(context_stack)
         IN  IF top.kind = "Root"
             THEN EndResult(FALSE,
                      context_error("context mismatch: end_task() called before task() was started.", <<>>),
                      rest, tasks, groups, root_entries)
             ELSE LET a == attach_entry_to_parent(rest, root_entries,
                                                  TaskEntry(top.full_path))
                  IN  EndResult(a.ok, a.err, a.stack,
                                insert_task_entry(tasks, top.full_path, top.task),
                                groups, a.roots)

end_task ==
    IF context_stack = <<>>
    THEN EndResult(FALSE, StackEmptyMsg, context_stack, tasks, groups, root_entries)
    ELSE LET top == Top(context_stack)
             rest == Pop(context_stack)
         IN  CASE top.kind = "Task" ->
                    LET a == attach_entry_to_parent(rest, root_entries,
                                                    TaskEntry(top.full_path))
                    IN  EndResult(a.ok, a.err, a.stack,
                                  insert_task_entry(tasks, top.full_path, top.task),
                                  groups, a.roots)
               [] top.kind = "Group" ->
                    EndResult(FALSE,
                        context_error("context mismatch: end_task() called while inside group().", <<>>),
                        rest, tasks, groups, root_entries)
               [] top.kind = "Root" ->
                    EndResult(FALSE,
                        context_error("context mismatch: end_task() called before task() was started.", <<>>),
                        rest, tasks, groups, root_entries)

end_group ==
    IF context_stack = <<>>
    THEN EndResult(FALSE, StackEmptyMsg, context_stack, tasks, groups, root_entries)
    ELSE LET top == Top(context_stack)
             rest == Pop(context_stack)
         IN  CASE top.kind = "Group" ->
                    LET a == attach_entry_to_parent(rest, root_entries,
                                                    GroupEntry(top.full_path))
                    IN  EndResult(a.ok, a.err, a.stack, tasks,
                                  insert_group_entry(groups, top.full_path, top.group),
                                  a.roots)
               [] top.kind = "Task" ->
                    EndResult(FALSE,
                        context_error("context mismatch: task() scope was not closed before ending group().", <<>>),
                        rest, tasks, groups, root_entries)
               [] top.kind = "Root" ->
                    EndResult(FALSE,
                        context_error("context mismatch: end_group() called before group() was started.", <<>>),
                        rest, tasks, groups, root_entries)

(* set_actions / set_description: the Result and the frame stack afterwards *)
set_actions(func) ==
    IF context_stack = <<>>
    THEN [ok |-> FALSE, err |-> StackEmptyMsg, stack |-> context_stack]
    ELSE IF Top(context_stack).kind = "Task"
    THEN [ok |-> TRUE, err |-> NoErr,
          stack |-> [context_stack EXCEPT ![Len(context_stack)].task.actions =
                                              Some(func)]]
    ELSE [ok |-> FALSE,
          err |-> context_error("actions() can only be used inside task(). Call task() first.", <<>>),
          stack |-> context_stack]

set_description(desc) ==
    IF context_stack = <<>>
    THEN [ok |-> FALSE, err |-> StackEmptyMsg, stack |-> context_stack]
    ELSE CASE Top(context_stack).kind = "Task" ->
                [ok |-> TRUE, err |-> NoErr,
                 stack |-> [context_stack EXCEPT
                              ![Len(context_stack)].task.description = Some(desc)]]
           [] Top(context_stack).kind = "Group" ->
                [ok |-> TRUE, err |-> NoErr,
                 stack |-> [context_stack EXCEPT
                              ![Len(context_stack)].group.description = Some(desc)]]
           [] Top(context_stack).kind = "Root" ->
                [ok |-> FALSE,
                 err |-> context_error("description() can only be used inside task() or group().", <<>>),
                 stack |-> context_stack]

(* String::cmp: bytewise, over the characters the inputs use *)
ByteOrder ==
    <<" ", "-", ".", "/", "1", "2", "3", "=", "a", "b", "c", "d", "e", "f", "l",
      "w", "x", "y">>

CharCode(c) == CHOOSE i \in 1..Len(ByteOrder) : ByteOrder[i] = c

RECURSIVE StrLess(_, _)
StrLess(a, b) ==
    IF b = <<>> THEN FALSE
    ELSE IF a = <<>> THEN TRUE
    ELSE IF Head(a) = Head(b) THEN StrLess(Tail(a), Tail(b))
    ELSE CharCode(Head(a)) < CharCode(Head(b))

(* A rhai Dynamic holding () or a string *)
Unit == [unit |-> TRUE, text |-> <<>>]

Str(s) == [unit |-> FALSE, text |-> s]

ParameterSpec(name, default) == [name |-> name, default |-> default]

(* entries.sort_by(|a, b| a.0.cmp(&b.0)): a stable sort by name *)
RECURSIVE InsertByName(_, _)
InsertByName(sorted, e) ==
    IF sorted = <<>> THEN <<e>>
    ELSE IF StrLess(e.name, Head(sorted).name)
         THEN <<e>> \o sorted
         ELSE <<Head(sorted)>> \o InsertByName(Tail(sorted), e)

RECURSIVE sort_by_name(_)
sort_by_name(entries) ==
    IF entries = <<>> THEN <<>>
    ELSE InsertByName(sort_by_name(SubSeq(entries, 1, Len(entries) - 1)),
                      entries[Len(entries)])

(* The entries of the rhai Map as name and default, in iteration order *)
MapEntries(params) ==
    [i \in 1..Len(params) |->
        ParameterSpec(params[i].key,
                      IF params[i].value.unit THEN None
                      ELSE Some(params[i].value.text))]

(* Faulty variant: the entries are stored in the order the map yields them *)
set_args_unsorted(params) ==
    IF context_stack = <<>>
    THEN [ok |-> FALSE, err |-> StackEmptyMsg, stack |-> context_stack]
    ELSE IF Top(context_stack).kind = "Task"
    THEN [ok |-> TRUE, err |-> NoErr,
          stack |-> [context_stack EXCEPT ![Len(context_stack)].task.params =
                                              MapEntries(params)]]
    ELSE [ok |-> FALSE,
          err |-> context_error("args() can only be used inside task().", <<>>),
          stack |-> context_stack]

(* Faulty variant: the setter writes into whatever frame is on top *)
set_args_any_frame(params) ==
    IF context_stack = <<>>
    THEN [ok |-> FALSE, err |-> StackEmptyMsg, stack |-> context_stack]
    ELSE [ok |-> TRUE, err |-> NoErr,
          stack |-> [context_stack EXCEPT ![Len(context_stack)].task.params =
                                              sort_by_name(MapEntries(params))]]

set_args(params) ==
    IF context_stack = <<>>
    THEN [ok |-> FALSE, err |-> StackEmptyMsg, stack |-> context_stack]
    ELSE IF Top(context_stack).kind = "Task"
    THEN [ok |-> TRUE, err |-> NoErr,
          stack |-> [context_stack EXCEPT ![Len(context_stack)].task.params =
                                              sort_by_name(MapEntries(params))]]
    ELSE [ok |-> FALSE,
          err |-> context_error("args() can only be used inside task().", <<>>),
          stack |-> context_stack]

(* The file system dir() looks at: directories, a plain file and a symbolic
   link to a directory *)
DirW == <<"/", "w">>

DirWD == <<"/", "w", "/", "d">>

DirE == <<"/", "e">>

FileWF == <<"/", "w", "/", "f">>

LinkWL == <<"/", "w", "/", "l">>

DirsOnDisk == { DirW, DirWD, DirE }

FilesOnDisk == { FileWF }

(* Path::is_absolute *)
is_absolute(path) == path # <<>> /\ Head(path) = "/"

(* PathBuf::join of a relative path *)
path_join(root, raw) == root \o <<"/">> \o raw

(* Path::canonicalize: the link is followed, a missing path is an error *)
canonicalize(path) ==
    IF path \in DirsOnDisk \cup FilesOnDisk THEN Some(path)
    ELSE IF path = LinkWL THEN Some(DirWD)
    ELSE None

ResolveErr(m) == [ok |-> FALSE, err |-> m, dir |-> <<>>]

resolve_directory(path) ==
    LET trimmed == trim(path) IN
    IF trimmed = <<>>
    THEN ResolveErr(context_error("dir() requires a non-empty path.", <<>>))
    ELSE IF ~is_absolute(trimmed) /\ script_root = None
    THEN ResolveErr(context_error(
             "dir() cannot be used before the rhaskfile root is known.", <<>>))
    ELSE
    LET candidate == IF is_absolute(trimmed) THEN trimmed
                     ELSE path_join(script_root[1], trimmed)
        normalized == canonicalize(candidate)
    IN  IF normalized = None
        THEN ResolveErr(context_error("dir(): unable to resolve '{}': {}", candidate))
        ELSE IF normalized[1] \notin DirsOnDisk
        THEN ResolveErr(context_error("dir(): '{}' is not a directory.",
                                      normalized[1]))
        ELSE [ok |-> TRUE, err |-> NoErr, dir |-> normalized[1]]

(* Faulty variant: a second dir() replaces the directory stored by the first *)
set_directory_overwriting(path) ==
    IF context_stack = <<>>
    THEN [ok |-> FALSE, err |-> StackEmptyMsg, stack |-> context_stack]
    ELSE IF Top(context_stack).kind # "Task"
    THEN [ok |-> FALSE,
          err |-> context_error("dir() can only be used inside task().", <<>>),
          stack |-> context_stack]
    ELSE LET resolved == resolve_directory(path) IN
         IF ~resolved.ok
         THEN [ok |-> FALSE, err |-> resolved.err, stack |-> context_stack]
         ELSE [ok |-> TRUE, err |-> NoErr,
               stack |-> [context_stack EXCEPT
                            ![Len(context_stack)].task.working_dir =
                                Some(resolved.dir)]]

set_directory(path) ==
    IF context_stack = <<>>
    THEN [ok |-> FALSE, err |-> StackEmptyMsg, stack |-> context_stack]
    ELSE IF Top(context_stack).kind # "Task"
    THEN [ok |-> FALSE,
          err |-> context_error("dir() can only be used inside task().", <<>>),
          stack |-> context_stack]
    ELSE IF Top(context_stack).task.working_dir # None
    THEN [ok |-> FALSE,
          err |-> context_error("dir() can only be defined once per task().", <<>>),
          stack |-> context_stack]
    ELSE LET resolved == resolve_directory(path) IN
         IF ~resolved.ok
         THEN [ok |-> FALSE, err |-> resolved.err, stack |-> context_stack]
         ELSE [ok |-> TRUE, err |-> NoErr,
               stack |-> [context_stack EXCEPT
                            ![Len(context_stack)].task.working_dir =
                                Some(resolved.dir)]]

-----------------------------------------------------------------------------
(* TaskRegistry::set_default_task: the Result and default_task afterwards *)

(* Faulty variant: a later definition replaces the stored default *)
set_default_task_overwriting(name) ==
    LET trimmed == trim(name) IN
    IF trimmed = <<>>
    THEN [ok |-> FALSE,
          err |-> context_error("default_task() requires a task name.", <<>>),
          default |-> default_task]
    ELSE [ok |-> TRUE, err |-> NoErr, default |-> Some(trimmed)]

set_default_task(name) ==
    LET trimmed == trim(name) IN
    IF trimmed = <<>>
    THEN [ok |-> FALSE,
          err |-> context_error("default_task() requires a task name.", <<>>),
          default |-> default_task]
    ELSE IF default_task # None
    THEN [ok |-> FALSE,
          err |-> context_error("default_task() can only be defined once per rhaskfile.", <<>>),
          default |-> default_task]
    ELSE [ok |-> TRUE, err |-> NoErr, default |-> Some(trimmed)]

-----------------------------------------------------------------------------
(* Resolver *)

Found(full_path) == [kind |-> "Found", paths |-> <<full_path>>]

Ambiguous(paths) == [kind |-> "Ambiguous", paths |-> paths]

NotFound == [kind |-> "NotFound", paths |-> <<>>]

(* Faulty variant: the search stops at the first task with a matching leaf *)
LeafMatchesFirst(m, leaf) ==
    LET hits == { i \in 1..Len(m) : leaf_name(m[i].key) = leaf }
    IN  IF hits = {} THEN <<>>
        ELSE <<m[CHOOSE i \in hits : \A j \in hits : i <= j].key>>

RECURSIVE LeafMatches(_, _)
LeafMatches(m, leaf) ==
    IF m = <<>> THEN <<>>
    ELSE IF leaf_name(Head(m).key) = leaf
         THEN <<Head(m).key>> \o LeafMatches(Tail(m), leaf)
         ELSE LeafMatches(Tail(m), leaf)

LookupOf(matches) ==
    CASE Len(matches) = 0 -> NotFound
      [] Len(matches) = 1 -> Found(matches[1])
      [] OTHER -> Ambiguous(matches)

(* Faulty variant: leaf matching comes before the exact match *)
resolve_task_leaf_first(identifier) ==
    LET trimmed == trim(identifier) IN
    IF trimmed = <<>> THEN NotFound
    ELSE IF contains_dot(trimmed)
         THEN (IF contains_task(trimmed) THEN Found(trimmed) ELSE NotFound)
    ELSE LookupOf(LeafMatches(tasks, trimmed))

(* Faulty variant: a dotted identifier that is no task path falls back to its leaf *)
resolve_task_dotted_leaf(identifier) ==
    LET trimmed == trim(identifier) IN
    IF trimmed = <<>> THEN NotFound
    ELSE IF contains_task(trimmed) THEN Found(trimmed)
    ELSE LookupOf(LeafMatches(tasks, leaf_name(trimmed)))

resolve_task(identifier) ==
    LET trimmed == trim(identifier) IN
    IF trimmed = <<>> THEN NotFound
    ELSE IF contains_task(trimmed) THEN Found(trimmed)
    ELSE IF contains_dot(trimmed)
         THEN (IF contains_task(trimmed) THEN Found(trimmed) ELSE NotFound)
    ELSE LET matches == LeafMatches(tasks, trimmed) IN
         CASE Len(matches) = 0 -> NotFound
           [] Len(matches) = 1 -> Found(matches[1])
           [] OTHER -> Ambiguous(matches)

(* Faulty variant: a dotted identifier that is no group path falls back to
   its leaf *)
resolve_group_dotted_leaf(identifier) ==
    LET trimmed == trim(identifier) IN
    IF trimmed = <<>> THEN NotFound
    ELSE IF contains_key(groups, trimmed) THEN Found(trimmed)
    ELSE LookupOf(LeafMatches(groups, leaf_name(trimmed)))

(* display.rs resolve_group; GroupLookup has the shape of TaskLookup *)
resolve_group(identifier) ==
    LET trimmed == trim(identifier) IN
    IF trimmed = <<>> THEN NotFound
    ELSE IF contains_key(groups, trimmed) THEN Found(trimmed)
    ELSE IF contains_dot(trimmed) THEN NotFound
    ELSE LET matches == LeafMatches(groups, trimmed) IN
         CASE Len(matches) = 0 -> NotFound
           [] Len(matches) = 1 -> Found(matches[1])
           [] OTHER -> Ambiguous(matches)

-----------------------------------------------------------------------------
(* Command-line arguments (task/arguments.rs) *)

starts_with(s, prefix) ==
    /\ Len(s) >= Len(prefix)
    /\ SubSeq(s, 1, Len(prefix)) = prefix

strip_prefix(s, prefix) ==
    IF starts_with(s, prefix)
    THEN Some(SubSeq(s, Len(prefix) + 1, Len(s)))
    ELSE None

contains(s, c) == \E i \in 1..Len(s) : s[i] = c

SetMin(S) == CHOOSE m \in S : \A x \in S : m <= x

(* str::split_once: the parts before and after the first occurrence of c *)
split_once(s, c) ==
    LET hits == { i \in 1..Len(s) : s[i] = c }
    IN  IF hits = {} THEN None
        ELSE Some([key |-> SubSeq(s, 1, SetMin(hits) - 1),
                   value |-> SubSeq(s, SetMin(hits) + 1, Len(s))])

(* [String]::join *)
RECURSIVE join(_, _)
join(strs, sep) ==
    IF strs = <<>> THEN <<>>
    ELSE IF Len(strs) = 1 THEN strs[1]
    ELSE strs[1] \o sep \o join(Tail(strs), sep)

(* IndexMap::shift_remove: the entry is taken out, the others keep their order *)
shift_remove(m, k) ==
    LET keep == { i \in 1..Len(m) : m[i].key # k }
        Nth(n) == CHOOSE i \in keep : Cardinality({ j \in keep : j < i }) = n - 1
    IN  [n \in 1..Cardinality(keep) |-> m[Nth(n)]]

KeysOf(m) == [i \in 1..Len(m) |-> m[i].key]

ParseOk(positional, named) ==
    [ok |-> TRUE, err |-> NoErr, positional |-> positional, named |-> named]

ParseErr(m) == [ok |-> FALSE, err |-> m, positional |-> <<>>, named |-> <<>>]

MissingValueMsg(rest) == context_error("Option '--{}' is missing a value.", rest)

(* Faulty variant: a repeated key keeps the value of its first occurrence *)
RECURSIVE ParseLoopKeepFirst(_, _, _, _)
ParseLoopKeepFirst(raw_args, i, positional, named) ==
    IF ~(i <= Len(raw_args)) THEN ParseOk(positional, named)
    ELSE
    LET arg == raw_args[i]
        stripped == strip_prefix(arg, <<"-", "-">>)
        Insert(m, k, v) == IF contains_key(m, k) THEN m ELSE IndexMapInsert(m, k, v)
    IN  IF stripped # None
        THEN LET rest == stripped[1]
                 kv == split_once(rest, "=")
             IN  IF rest = <<>>
                 THEN ParseErr(context_error("Argument name required after '--'.", <<>>))
                 ELSE IF kv # None
                 THEN IF kv[1].key = <<>>
                      THEN ParseErr(context_error("Argument name cannot be empty.", <<>>))
                      ELSE ParseLoopKeepFirst(raw_args, i + 1, positional,
                                     Insert(named, kv[1].key, kv[1].value))
                 ELSE IF /\ i + 1 <= Len(raw_args)
                         /\ ~starts_with(raw_args[i + 1], <<"-", "-">>)
                         /\ ~contains(raw_args[i + 1], "=")
                 THEN ParseLoopKeepFirst(raw_args, i + 2, positional,
                                Insert(named, rest, raw_args[i + 1]))
                 ELSE ParseErr(MissingValueMsg(rest))
        ELSE LET kv == split_once(arg, "=")
             IN  IF kv # None
                 THEN IF kv[1].key = <<>>
                      THEN ParseErr(context_error("Argument name cannot be empty.", <<>>))
                      ELSE ParseLoopKeepFirst(raw_args, i + 1, positional,
                                     Insert(named, kv[1].key, kv[1].value))
                 ELSE ParseLoopKeepFirst(raw_args, i + 1, Append(positional, arg), named)

(* The while loop of parse_cli_arguments from token i on (tokens count from 1) *)
RECURSIVE ParseLoop(_, _, _, _)
ParseLoop(raw_args, i, positional, named) ==
    IF ~(i <= Len(raw_args)) THEN ParseOk(positional, named)
    ELSE
    LET arg == raw_args[i]
        stripped == strip_prefix(arg, <<"-", "-">>)
    IN  IF stripped # None
        THEN LET rest == stripped[1]
                 kv == split_once(rest, "=")
             IN  IF rest = <<>>
                 THEN ParseErr(context_error("Argument name required after '--'.", <<>>))
                 ELSE IF kv # None
                 THEN IF kv[1].key = <<>>
                      THEN ParseErr(context_error("Argument name cannot be empty.", <<>>))
                      ELSE ParseLoop(raw_args, i + 1, positional,
                                     IndexMapInsert(named, kv[1].key, kv[1].value))
                 ELSE IF /\ i + 1 <= Len(raw_args)
                         /\ ~starts_with(raw_args[i + 1], <<"-", "-">>)
                         /\ ~contains(raw_args[i + 1], "=")
                 THEN ParseLoop(raw_args, i + 2, positional,
                                IndexMapInsert(named, rest, raw_args[i + 1]))
                 ELSE ParseErr(MissingValueMsg(rest))
        ELSE LET kv == split_once(arg, "=")
             IN  IF kv # None
                 THEN IF kv[1].key = <<>>
                      THEN ParseErr(context_error("Argument name cannot be empty.", <<>>))
                      ELSE ParseLoop(raw_args, i + 1, positional,
                                     IndexMapInsert(named, kv[1].key, kv[1].value))
                 ELSE ParseLoop(raw_args, i + 1, Append(positional, arg), named)

parse_cli_arguments(raw_args) == ParseLoop(raw_args, 1, <<>>, <<>>)

PrepareOk(values) == [ok |-> TRUE, err |-> NoErr, values |-> values]

PrepareErr(m) == [ok |-> FALSE, err |-> m, values |-> <<>>]

(* Faulty variant: a positional value is taken before the named value is looked up *)
RECURSIVE BindLoopPositionalFirst(_, _, _, _)
BindLoopPositionalFirst(params, positional_iter, named, values) ==
    IF params = <<>>
    THEN [ok |-> TRUE, err |-> NoErr, values |-> values,
          positional_iter |-> positional_iter, named |-> named]
    ELSE LET spec == Head(params) IN
         IF positional_iter # <<>>
         THEN BindLoopPositionalFirst(Tail(params), Tail(positional_iter),
                       shift_remove(named, spec.name),
                       Append(values, Head(positional_iter)))
         ELSE IF contains_key(named, spec.name)
         THEN BindLoopPositionalFirst(Tail(params), positional_iter,
                       shift_remove(named, spec.name),
                       Append(values, Value(named, spec.name)))
         ELSE IF spec.default # None
         THEN BindLoopPositionalFirst(Tail(params), positional_iter, named,
                       Append(values, spec.default[1]))
         ELSE [ok |-> FALSE,
               err |-> context_error("Argument '{}' is missing.", spec.name),
               values |-> <<>>, positional_iter |-> positional_iter,
               named |-> named]

(* The for loop of prepare_arguments_internal over the declared parameters *)
RECURSIVE BindLoop(_, _, _, _)
BindLoop(params, positional_iter, named, values) ==
    IF params = <<>>
    THEN [ok |-> TRUE, err |-> NoErr, values |-> values,
          positional_iter |-> positional_iter, named |-> named]
    ELSE LET spec == Head(params) IN
         IF contains_key(named, spec.name)
         THEN BindLoop(Tail(params), positional_iter,
                       shift_remove(named, spec.name),
                       Append(values, Value(named, spec.name)))
         ELSE IF positional_iter # <<>>
         THEN BindLoop(Tail(params), Tail(positional_iter), named,
                       Append(values, Head(positional_iter)))
         ELSE IF spec.default # None
         THEN BindLoop(Tail(params), positional_iter, named,
                       Append(values, spec.default[1]))
         ELSE [ok |-> FALSE,
               err |-> context_error("Argument '{}' is missing.", spec.name),
               values |-> <<>>, positional_iter |-> positional_iter,
               named |-> named]

(* Faulty variant: arguments given to a task without parameters are ignored *)
prepare_arguments_internal_lenient(task_name, positional, named) ==
    IF ~contains_task(task_name)
    THEN PrepareErr(context_error("Internal error: task '{}' not found", task_name))
    ELSE
    LET task == Value(tasks, task_name) IN
    IF task.params = <<>>
    THEN PrepareOk(<<>>)
    ELSE
    LET b == BindLoop(task.params, positional, named, <<>>) IN
    IF ~b.ok THEN PrepareErr(b.err)
    ELSE IF b.positional_iter # <<>>
    THEN PrepareErr(context_error("Unexpected positional argument '{}' provided.",
                                  Head(b.positional_iter)))
    ELSE IF b.named # <<>>
    THEN PrepareErr(context_error("Unknown argument(s): {}",
                                  join(KeysOf(b.named), <<",", " ">>)))
    ELSE PrepareOk(b.values)

(* Faulty variant: named arguments left over after binding are dropped *)
prepare_arguments_internal_drop_named(task_name, positional, named) ==
    IF ~contains_task(task_name)
    THEN PrepareErr(context_error("Internal error: task '{}' not found", task_name))
    ELSE
    LET task == Value(tasks, task_name) IN
    IF task.params = <<>>
    THEN IF positional = <<>> /\ named = <<>>
         THEN PrepareOk(<<>>)
         ELSE PrepareErr(context_error("Task '{}' does not accept arguments.",
                                       task_name))
    ELSE
    LET b == BindLoop(task.params, positional, named, <<>>) IN
    IF ~b.ok THEN PrepareErr(b.err)
    ELSE IF b.positional_iter # <<>>
    THEN PrepareErr(context_error("Unexpected positional argument '{}' provided.",
                                  Head(b.positional_iter)))
    ELSE PrepareOk(b.values)

(* Faulty variant: positional values left over after binding are dropped *)
prepare_arguments_internal_drop_positional(task_name, positional, named) ==
    IF ~contains_task(task_name)
    THEN PrepareErr(context_error("Internal error: task '{}' not found", task_name))
    ELSE
    LET task == Value(tasks, task_name) IN
    IF task.params = <<>>
    THEN IF positional = <<>> /\ named = <<>>
         THEN PrepareOk(<<>>)
         ELSE PrepareErr(context_error("Task '{}' does not accept arguments.",
                                       task_name))
    ELSE
    LET b == BindLoop(task.params, positional, named, <<>>) IN
    IF ~b.ok THEN PrepareErr(b.err)
    ELSE IF b.named # <<>>
    THEN PrepareErr(context_error("Unknown argument(s): {}",
                                  join(KeysOf(b.named), <<",", " ">>)))
    ELSE PrepareOk(b.values)

(* Faulty variant: undeclared named keys are reported before a positional
   value left over *)
prepare_arguments_internal_unknown_first(task_name, positional, named) ==
    IF ~contains_task(task_name)
    THEN PrepareErr(context_error("Internal error: task '{}' not found", task_name))
    ELSE
    LET task == Value(tasks, task_name) IN
    IF task.params = <<>>
    THEN IF positional = <<>> /\ named = <<>>
         THEN PrepareOk(<<>>)
         ELSE PrepareErr(context_error("Task '{}' does not accept arguments.",
                                       task_name))
    ELSE
    LET b == BindLoop(task.params, positional, named, <<>>) IN
    IF ~b.ok THEN PrepareErr(b.err)
    ELSE IF b.named # <<>>
    THEN PrepareErr(context_error("Unknown argument(s): {}",
                                  join(KeysOf(b.named), <<",", " ">>)))
    ELSE IF b.positional_iter # <<>>
    THEN PrepareErr(context_error("Unexpected positional argument '{}' provided.",
                                  Head(b.positional_iter)))
    ELSE PrepareOk(b.values)

prepare_arguments_internal(task_name, positional, named) ==
    IF ~contains_task(task_name)
    THEN PrepareErr(context_error("Internal error: task '{}' not found", task_name))
    ELSE
    LET task == Value(tasks, task_name) IN
    IF task.params = <<>>
    THEN IF positional = <<>> /\ named = <<>>
         THEN PrepareOk(<<>>)
         ELSE PrepareErr(context_error("Task '{}' does not accept arguments.",
                                       task_name))
    ELSE
    LET b == BindLoop(task.params, positional, named, <<>>) IN
    IF ~b.ok THEN PrepareErr(b.err)
    ELSE IF b.positional_iter # <<>>
    THEN PrepareErr(context_error("Unexpected positional argument '{}' provided.",
                                  Head(b.positional_iter)))
    ELSE IF b.named # <<>>
    THEN PrepareErr(context_error("Unknown argument(s): {}",
                                  join(KeysOf(b.named), <<",", " ">>)))
    ELSE PrepareOk(b.values)

prepare_arguments_from_parts(task_name, positional, named) ==
    prepare_arguments_internal(task_name, positional, named)

prepare_arguments_from_cli(task_name, raw_args) ==
    LET p == parse_cli_arguments(raw_args) IN
    IF ~p.ok THEN PrepareErr(p.err)
    ELSE prepare_arguments_from_parts(task_name, p.positional, p.named)

-----------------------------------------------------------------------------
(* The call sequence so far, read as the scopes it names.  balanced holds
   while every begin so far named a fresh path inside the root or a group scope
   and every end closed the innermost open scope of its own kind; open holds
   the segment names of the scopes not yet closed, closed the scopes closed,
   and order every scope opened so far, in the order of the begin calls, with
   the path of the scope it was opened in (the empty path for the root). *)

RECURSIVE DotJoin(_)
DotJoin(segs) ==
    IF segs = <<>> THEN <<>>
    ELSE IF Len(segs) = 1 THEN segs[1]
    ELSE segs[1] \o <<".">> \o DotJoin(Tail(segs))

Unbalanced ==
    [balanced |-> FALSE, open |-> <<>>, declared |-> {}, closed |-> {},
     order |-> <<>>]

ShadowInit ==
    [balanced |-> TRUE, open |-> <<>>, declared |-> {}, closed |-> {},
     order |-> <<>>]

OpenNames(open) == [i \in 1..Len(open) |-> open[i].name]

ShadowBegin(kind, name) ==
    IF ~shadow.balanced THEN shadow
    ELSE LET n == trim(name)
             path == DotJoin(Append(OpenNames(shadow.open), n))
         IN  IF \/ n = <<>>
                \/ (shadow.open # <<>> /\ Top(shadow.open).kind = "Task")
                \/ path \in shadow.declared
             THEN Unbalanced
             ELSE [shadow EXCEPT !.open = Append(@, [kind |-> kind, name |-> n]),
                                 !.declared = @ \cup {path},
                                 !.order = Append(@,
                                     [kind |-> kind, path |-> path,
                                      parent |-> DotJoin(OpenNames(shadow.open))])]

ShadowEnd(kind) ==
    IF shadow.balanced /\ shadow.open # <<>> /\ Top(shadow.open).kind = kind
    THEN [shadow EXCEPT !.open = Pop(@),
                        !.closed = @ \cup {[kind |-> kind,
                                            path |-> DotJoin(OpenNames(shadow.open))]}]
    ELSE Unbalanced

-----------------------------------------------------------------------------
(* Actions *)

Call(op, r) == [op |-> op, ok |-> r.ok, err |-> r.err]

(* The script API is reachable while the script is evaluated and from the body
   of a running action (api.rs registers task(), group(), ... globally). *)
ScriptApiReachable == phase = "script" \/ contexts # <<>>

BeginTask(name) ==
    /\ ScriptApiReachable
    /\ LET r == begin_task(name) IN
       /\ r.ok => opened < MaxScopes
       /\ context_stack' = r.stack
       /\ opened' = IF r.ok THEN opened + 1 ELSE opened
       /\ last' = Call("begin_task", r)
    /\ shadow' = ShadowBegin("Task", name)
    /\ UNCHANGED <<script_root, tasks, groups, root_entries, default_task, phase,
                   contexts, lookup>>
    /\ UNCHANGED <<execvars, argvars>>

BeginGroup(name) ==
    /\ ScriptApiReachable
    /\ LET r == begin_group(name) IN
       /\ r.ok => opened < MaxScopes
       /\ context_stack' = r.stack
       /\ opened' = IF r.ok THEN opened + 1 ELSE opened
       /\ last' = Call("begin_group", r)
    /\ shadow' = ShadowBegin("Group", name)
    /\ UNCHANGED <<script_root, tasks, groups, root_entries, default_task, phase,
                   contexts, lookup>>
    /\ UNCHANGED <<execvars, argvars>>

EndTask ==
    /\ ScriptApiReachable
    /\ LET r == end_task IN
       /\ context_stack' = r.stack
       /\ tasks' = r.tasks
       /\ groups' = r.groups
       /\ root_entries' = r.roots
       /\ last' = Call("end_task", r)
    /\ shadow' = ShadowEnd("Task")
    /\ UNCHANGED <<script_root, default_task, phase, contexts, lookup, opened>>
    /\ UNCHANGED <<execvars, argvars>>

EndGroup ==
    /\ ScriptApiReachable
    /\ LET r == end_group IN
       /\ context_stack' = r.stack
       /\ tasks' = r.tasks
       /\ groups' = r.groups
       /\ root_entries' = r.roots
       /\ last' = Call("end_group", r)
    /\ shadow' = ShadowEnd("Group")
    /\ UNCHANGED <<script_root, default_task, phase, contexts, lookup, opened>>
    /\ UNCHANGED <<execvars, argvars>>

SetActions(func) ==
    /\ ScriptApiReachable
    /\ LET r == set_actions(func) IN
       /\ context_stack' = r.stack
       /\ last' = Call("set_actions", r)
    /\ UNCHANGED <<script_root, tasks, groups, root_entries, default_task, phase,
                   contexts, lookup, opened, shadow>>
    /\ UNCHANGED <<execvars, argvars>>

SetDescription(desc) ==
    /\ ScriptApiReachable
    /\ LET r == set_description(desc) IN
       /\ context_stack' = r.stack
       /\ last' = Call("set_description", r)
    /\ UNCHANGED <<script_root, tasks, groups, root_entries, default_task, phase,
                   contexts, lookup, opened, shadow>>
    /\ UNCHANGED <<execvars, argvars>>

SetDefaultTask(name) ==
    /\ ScriptApiReachable
    /\ LET r == set_default_task(name) IN
       /\ default_task' = r.default
       /\ last' = Call("set_default_task", r)
    /\ UNCHANGED <<context_stack, script_root, tasks, groups, root_entries, phase,
                   contexts, lookup, opened, shadow>>
    /\ UNCHANGED <<execvars, argvars>>

(* Faulty variant: the script root is forgotten but the open frames stay *)
Reset_keep_frames ==
    /\ phase = "script"
    /\ script_root' = None
    /\ last' = Call("reset", Ok)
    /\ shadow' = Unbalanced
    /\ UNCHANGED <<context_stack, tasks, groups, root_entries, default_task, phase,
                   contexts, lookup, opened>>
    /\ UNCHANGED <<execvars, argvars>>

(* BuildStack::reset *)
Reset ==
    /\ phase = "script"
    /\ context_stack' = <<RootFrame>>
    /\ script_root' = None
    /\ last' = Call("reset", Ok)
    /\ shadow' = Unbalanced
    /\ UNCHANGED <<tasks, groups, root_entries, default_task, phase, contexts,
                   lookup, opened>>
    /\ UNCHANGED <<execvars, argvars>>

(* BuildStack::set_script_root *)
SetScriptRoot(root) ==
    /\ phase = "script"
    /\ script_root' = Some(root)
    /\ last' = Call("set_script_root", Ok)
    /\ UNCHANGED <<context_stack, tasks, groups, root_entries, default_task, phase,
                   contexts, lookup, opened, shadow>>
    /\ UNCHANGED <<execvars, argvars>>

(* run_script returns: run_ast has finished, every ScopeGuard has dropped *)
FinishScript ==
    /\ phase = "script"
    /\ context_stack = <<RootFrame>>
    /\ phase' = "run"
    /\ last' = Call("run_script", Ok)
    /\ UNCHANGED <<context_stack, script_root, tasks, groups, root_entries,
                   default_task, contexts, lookup, opened, shadow>>
    /\ UNCHANGED <<execvars, argvars>>

(* The call of std::env that fails while a directory is entered, if any *)
DirFaults == { "none", "current_dir", "set_current_dir" }

(* Faulty variant: the context is pushed before the directory is entered, and
   stays when entering fails *)
ActionScopeStart_push_first(working_dir, dir_fault) ==
    LET target_dir == IF working_dir # None THEN working_dir[1] ELSE base_dir
        previous_dir == cwd
        pushed == Append(contexts, [working_dir |-> working_dir])
    IN  IF dir_fault = "current_dir"
        THEN [ok |-> FALSE,
              err |-> Msg("Failed to read current directory: {}", <<>>),
              contexts |-> pushed, cwd |-> cwd, previous_dir |-> None]
        ELSE IF previous_dir # target_dir /\ dir_fault = "set_current_dir"
        THEN [ok |-> FALSE,
              err |-> Msg("Failed to change working directory to '{}': {}", target_dir),
              contexts |-> pushed, cwd |-> cwd, previous_dir |-> None]
        ELSE [ok |-> TRUE, err |-> NoErr,
              contexts |-> pushed,
              cwd |-> target_dir, previous_dir |-> Some(previous_dir)]

(* ExecutionState::enter_directory followed by ExecutionState::push, as
   ActionScope::start runs them; dir_fault names the call that fails:
   env::current_dir, or env::set_current_dir when it is called. *)
ActionScopeStart(working_dir, dir_fault) ==
    LET target_dir == IF working_dir # None THEN working_dir[1] ELSE base_dir
        previous_dir == cwd
    IN  IF dir_fault = "current_dir"
        THEN [ok |-> FALSE,
              err |-> Msg("Failed to read current directory: {}", <<>>),
              contexts |-> contexts, cwd |-> cwd, previous_dir |-> None]
        ELSE IF previous_dir # target_dir /\ dir_fault = "set_current_dir"
        THEN [ok |-> FALSE,
              err |-> Msg("Failed to change working directory to '{}': {}", target_dir),
              contexts |-> contexts, cwd |-> cwd, previous_dir |-> None]
        ELSE [ok |-> TRUE, err |-> NoErr,
              contexts |-> Append(contexts, [working_dir |-> working_dir]),
              cwd |-> target_dir, previous_dir |-> Some(previous_dir)]

(* The message run_task builds for an ambiguous name: one line per candidate *)
AmbiguousMsg(name, candidates) ==
    [fmt |-> "Task '{}' matches multiple candidates:\n{}Please use the fully-qualified name (e.g. group.task).",
     arg |-> name, list |-> candidates]

RunResult(ok, err, c, sc, dir, found) ==
    [ok |-> ok, err |-> err, contexts |-> c, scopes |-> sc, cwd |-> dir,
     found |-> found]

Body(previous_dir, full_path, func, args) ==
    [previous_dir |-> previous_dir, task |-> full_path, func |-> func,
     args |-> args]

(* Faulty variant: an ambiguous name runs its first candidate *)
run_task_first_candidate(name, raw_args, dir_fault) ==
    LET found == resolve_task(name) IN
    CASE found.kind = "NotFound" ->
            RunResult(FALSE, Msg("Task '{}' does not exist.", name),
                      contexts, scopes, cwd, found)
      [] found.kind \in {"Found", "Ambiguous"} ->
            LET full_path == found.paths[1]
                call_args == prepare_arguments_from_cli(full_path, raw_args)
                task == Value(tasks, full_path)
            IN  IF ~call_args.ok
                THEN RunResult(FALSE, call_args.err, contexts, scopes, cwd, found)
                ELSE IF task.actions = None
                THEN RunResult(FALSE,
                         Msg("Task '{}' has no actions() registered.", full_path),
                         contexts, scopes, cwd, found)
                ELSE LET sc == ActionScopeStart(task.working_dir, dir_fault) IN
                     IF ~sc.ok
                     THEN RunResult(FALSE, sc.err, contexts, scopes, cwd, found)
                     ELSE RunResult(TRUE, NoErr, sc.contexts,
                              Append(scopes, Body(sc.previous_dir, full_path,
                                                  task.actions[1], call_args.values)),
                              sc.cwd, found)

(* ScriptEngine::run_task up to the call of the action body: the Result of the
   part that can fail before the body runs, and contexts, the live scopes and
   the working directory afterwards. *)
run_task(name, raw_args, dir_fault) ==
    LET found == resolve_task(name) IN
    CASE found.kind = "NotFound" ->
            RunResult(FALSE, Msg("Task '{}' does not exist.", name),
                      contexts, scopes, cwd, found)
      [] found.kind = "Ambiguous" ->
            RunResult(FALSE, AmbiguousMsg(name, found.paths),
                      contexts, scopes, cwd, found)
      [] found.kind = "Found" ->
            LET full_path == found.paths[1]
                call_args == prepare_arguments_from_cli(full_path, raw_args)
                task == Value(tasks, full_path)
            IN  IF ~call_args.ok
                THEN RunResult(FALSE, call_args.err, contexts, scopes, cwd, found)
                ELSE IF task.actions = None
                THEN RunResult(FALSE,
                         Msg("Task '{}' has no actions() registered.", full_path),
                         contexts, scopes, cwd, found)
                ELSE LET sc == ActionScopeStart(task.working_dir, dir_fault) IN
                     IF ~sc.ok
                     THEN RunResult(FALSE, sc.err, contexts, scopes, cwd, found)
                     ELSE RunResult(TRUE, NoErr, sc.contexts,
                              Append(scopes, Body(sc.previous_dir, full_path,
                                                  task.actions[1], call_args.values)),
                              sc.cwd, found)

Lookup(identifier, result) == [identifier |-> identifier, result |-> result]

RunTask(name, raw_args, dir_fault) ==
    /\ phase = "run"
    /\ contexts = <<>>
    /\ LET r == run_task(name, raw_args, dir_fault) IN
       /\ contexts' = r.contexts
       /\ scopes' = r.scopes
       /\ cwd' = r.cwd
       /\ lookup' = Lookup(name, r.found)
       /\ last' = Call("run_task", r)
    /\ launch_dir' = Some(cwd)
    /\ UNCHANGED <<context_stack, script_root, tasks, groups, root_entries,
                   default_task, phase, opened, shadow, base_dir, spawned, guards,
                   held, calls,
                   argvars>>

(* Faulty variant: the scope is dropped without restoring the directory *)
ActionReturn_keep_dir ==
    /\ contexts # <<>>
    /\ contexts' = Pop(contexts)
    /\ scopes' = Pop(scopes)
    /\ cwd' = cwd
    /\ last' = Call("action_return", Ok)
    /\ UNCHANGED <<context_stack, script_root, tasks, groups, root_entries,
                   default_task, phase, lookup, opened, shadow, base_dir, spawned,
                   launch_dir, guards, held, calls,
                   argvars>>

(* The action body returns: its ActionScope is dropped *)
ActionReturn ==
    /\ contexts # <<>>
    /\ contexts' = Pop(contexts)
    /\ scopes' = Pop(scopes)
    /\ cwd' = IF Top(scopes).previous_dir # None
              THEN Top(scopes).previous_dir[1]
              ELSE cwd
    /\ last' = Call("action_return", Ok)
    /\ UNCHANGED <<context_stack, script_root, tasks, groups, root_entries,
                   default_task, phase, lookup, opened, shadow, base_dir, spawned,
                   launch_dir, guards, held, calls,
                   argvars>>

(* ExecutionState::is_active *)
is_active == contexts # <<>>

ExecLabel == <<"e", "x", "e", "c", "(", ")">>

TriggerLabel == <<"t", "r", "i", "g", "g", "e", "r", "(", ")">>

actions_only_error(label) ==
    Msg("{} can only be used inside actions().", label)

(* runtime.rs ensure_actions_scope *)
ensure_actions_scope(label) ==
    IF ~is_active THEN Err(actions_only_error(label)) ELSE Ok

(* api.rs apply_working_dir: the command runs in the working_dir of the
   innermost context when it has one, and in the directory of the process
   otherwise. *)
apply_working_dir ==
    IF Top(contexts).working_dir # None
    THEN Top(contexts).working_dir[1]
    ELSE cwd

(* The error executor.run() returns when the command fails *)
ExecutorError == Msg("{}", <<"x">>)

ExecResult(ok, err, sp) == [ok |-> ok, err |-> err, spawned |-> sp]

(* Faulty variant: the command is run without asking for an action scope *)
run_executor_unguarded(run_ok) ==
    ExecResult(run_ok, IF run_ok THEN NoErr ELSE ExecutorError,
               spawned \cup {IF contexts # <<>> THEN apply_working_dir ELSE cwd})

(* api.rs run_executor, which exec() and exec_stream() both end in; run_ok
   tells whether the command succeeds once it is run. *)
run_executor(run_ok) ==
    LET guard == ensure_actions_scope(ExecLabel) IN
    IF ~guard.ok
    THEN ExecResult(FALSE, guard.err, spawned)
    ELSE ExecResult(run_ok, IF run_ok THEN NoErr ELSE ExecutorError,
                    spawned \cup {apply_working_dir})

Exec(run_ok) ==
    /\ ScriptApiReachable
    /\ LET r == run_executor(run_ok) IN
       /\ spawned' = r.spawned
       /\ last' = Call("exec", r)
    /\ UNCHANGED <<context_stack, script_root, tasks, groups, root_entries,
                   default_task, phase, contexts, lookup, opened, shadow,
                   base_dir, cwd, scopes, launch_dir, guards, held, calls,
                   argvars>>

(* ActionScope::start_nested *)
start_nested(label, working_dir, dir_fault) ==
    IF ~is_active
    THEN [ok |-> FALSE, err |-> actions_only_error(label),
          contexts |-> contexts, cwd |-> cwd, previous_dir |-> None]
    ELSE ActionScopeStart(working_dir, dir_fault)

(* runtime.rs trigger_impl up to the call of the triggered body.  The nested
   scope is started with the label alone: the working_dir of the triggered
   task is never read, so the scope is entered without one.  A target that is
   ambiguous, not found or has no actions is reported with printer::warn and
   the call returns Ok. *)
trigger_impl(name, positional, named, dir_fault) ==
    LET found == resolve_task(name) IN
    CASE found.kind = "NotFound" ->
            RunResult(TRUE, NoErr, contexts, scopes, cwd, found)
      [] found.kind = "Ambiguous" ->
            RunResult(TRUE, NoErr, contexts, scopes, cwd, found)
      [] found.kind = "Found" ->
            LET full_path == found.paths[1]
                args == prepare_arguments_from_parts(full_path, positional, named)
                func == Value(tasks, full_path).actions
            IN  IF ~args.ok
                THEN RunResult(FALSE, args.err, contexts, scopes, cwd, found)
                ELSE IF ~is_active
                THEN RunResult(FALSE, actions_only_error(TriggerLabel),
                               contexts, scopes, cwd, found)
                ELSE IF func = None
                THEN RunResult(TRUE, NoErr, contexts, scopes, cwd, found)
                ELSE LET sc == start_nested(TriggerLabel, None, dir_fault) IN
                     IF ~sc.ok
                     THEN RunResult(FALSE, sc.err, contexts, scopes, cwd, found)
                     ELSE RunResult(TRUE, NoErr, sc.contexts,
                              Append(scopes, Body(sc.previous_dir, full_path,
                                                  func[1], args.values)),
                              sc.cwd, found)

Trigger(name, positional, named, dir_fault) ==
    /\ ScriptApiReachable
    /\ LET r == trigger_impl(name, positional, named, dir_fault) IN
       /\ Len(r.contexts) <= MaxDepth
       /\ contexts' = r.contexts
       /\ scopes' = r.scopes
       /\ cwd' = r.cwd
       /\ lookup' = Lookup(name, r.found)
       /\ last' = Call("trigger", r)
    /\ UNCHANGED <<context_stack, script_root, tasks, groups, root_entries,
                   default_task, phase, opened, shadow, base_dir, spawned,
                   launch_dir, guards, held, calls,
                   argvars>>

(* The error an action body raises, whatever its text *)
ScriptError == Msg("{}", <<"e">>)

(* The action body fails: its ActionScope is dropped while the error travels
   to the caller, which is run_task for the outermost body and trigger() for a
   triggered one. *)
ActionBodyFail ==
    /\ contexts # <<>>
    /\ context_stack = <<RootFrame>>
    /\ contexts' = Pop(contexts)
    /\ scopes' = Pop(scopes)
    /\ cwd' = IF Top(scopes).previous_dir # None
              THEN Top(scopes).previous_dir[1]
              ELSE cwd
    /\ last' = Call(IF Len(contexts) = 1 THEN "run_task" ELSE "trigger",
                    Err(ScriptError))
    /\ UNCHANGED <<context_stack, script_root, tasks, groups, root_entries,
                   default_task, phase, lookup, opened, shadow, base_dir, spawned,
                   launch_dir, guards, held, calls,
                   argvars>>

SetArgs(params) ==
    /\ ScriptApiReachable
    /\ LET r == set_args(params) IN
       /\ context_stack' = r.stack
       /\ last' = Call("set_args", r)
    /\ UNCHANGED <<script_root, tasks, groups, root_entries, default_task, phase,
                   contexts, lookup, opened, shadow>>
    /\ UNCHANGED <<execvars, argvars>>

SetDirectory(path) ==
    /\ ScriptApiReachable
    /\ LET r == set_directory(path) IN
       /\ context_stack' = r.stack
       /\ last' = Call("set_directory", r)
    /\ UNCHANGED <<script_root, tasks, groups, root_entries, default_task, phase,
                   contexts, lookup, opened, shadow>>
    /\ UNCHANGED <<execvars, argvars>>

Parsed(raw_args, result) == [raw_args |-> raw_args, result |-> result]

Prepared(task_name, positional, named, result) ==
    [task_name |-> task_name, positional |-> positional, named |-> named,
     result |-> result]

ParseCliArguments(raw_args) ==
    /\ parsed' = Parsed(raw_args, parse_cli_arguments(raw_args))
    /\ last' = Call("parse_cli_arguments", parse_cli_arguments(raw_args))
    /\ UNCHANGED <<context_stack, script_root, tasks, groups, root_entries,
                   default_task, phase, contexts, lookup, opened, shadow,
                   execvars, prepared>>

PrepareArgumentsFromParts(task_name, positional, named) ==
    /\ prepared' = Prepared(task_name, positional, named,
                            prepare_arguments_from_parts(task_name, positional, named))
    /\ last' = Call("prepare_arguments_from_parts",
                    prepare_arguments_from_parts(task_name, positional, named))
    /\ UNCHANGED <<context_stack, script_root, tasks, groups, root_entries,
                   default_task, phase, contexts, lookup, opened, shadow,
                   execvars, parsed>>

Init ==
    /\ context_stack = <<RootFrame>>
    /\ script_root = None
    /\ tasks = <<>>
    /\ groups = <<>>
    /\ root_entries = <<>>
    /\ default_task = None
    /\ phase = "script"
    /\ contexts = <<>>
    /\ lookup = Lookup(<<>>, NotFound)
    /\ last = Call("new", Ok)
    /\ opened = 0
    /\ shadow = ShadowInit
    /\ base_dir = DirW
    /\ cwd = DirW
    /\ scopes = <<>>
    /\ parsed = Parsed(<<>>, ParseOk(<<>>, <<>>))
    /\ prepared = Prepared(<<>>, <<>>, <<>>, PrepareOk(<<>>))
    /\ spawned = {}
    /\ launch_dir = None
    /\ guards = <<>>
    /\ held = <<>>
    /\ calls = <<>>

(* The BuildStack driven call by call, in any order *)
Next ==
    \/ \E name \in NameInputs : BeginTask(name)
    \/ \E name \in NameInputs : BeginGroup(name)
    \/ EndTask
    \/ EndGroup
    \/ \E func \in ActionInputs : SetActions(func)
    \/ \E desc \in DescInputs : SetDescription(desc)
    \/ Reset
    \/ SetScriptRoot(DirW)

Spec == Init /\ [][Next]_vars

-----------------------------------------------------------------------------
(* The BuildStack driven by the script engine: task() and group() enter their
   scope through ScopeGuard::enter and leave it when the guard is dropped, so
   an end call always finds the frame its own guard pushed on top. *)

TaskGuardDrop ==
    /\ context_stack # <<>>
    /\ Top(context_stack).kind = "Task"
    /\ EndTask

GroupGuardDrop ==
    /\ context_stack # <<>>
    /\ Top(context_stack).kind = "Group"
    /\ EndGroup

(* The action body returns once the blocks it entered have been left *)
ActionBodyReturn ==
    /\ context_stack = <<RootFrame>>
    /\ ActionReturn

NextEngine ==
    \/ \E name \in NameInputs : BeginTask(name)
    \/ \E name \in NameInputs : BeginGroup(name)
    \/ TaskGuardDrop
    \/ GroupGuardDrop
    \/ \E func \in ActionInputs : SetActions(func)
    \/ \E desc \in DescInputs : SetDescription(desc)
    \/ \E name \in DefaultInputs : SetDefaultTask(name)
    \/ FinishScript
    \/ \E name \in NameInputs : RunTask(name, <<>>, "none")
    \/ ActionBodyReturn

SpecEngine == Init /\ [][NextEngine]_vars

-----------------------------------------------------------------------------
(* Script evaluation with its ScopeGuard values: task() and group() create a
   guard when their begin call succeeds and call the body closure; the guard
   is a local of the native call, so the innermost live guard is the next one
   dropped, when its body returns a value or an error. *)

ScopeKinds == { "Task", "Group" }

(* Faulty variant: a guard is created also when the begin call fails *)
ScopeGuard_enter_always_armed(identifier, kind) ==
    LET r == IF kind = "Task" THEN begin_task(identifier)
                              ELSE begin_group(identifier)
    IN  [ok |-> r.ok, err |-> r.err, stack |-> r.stack,
         guards |-> Append(guards, kind)]

(* ScopeGuard::enter: the Result, the frame stack and the live guards *)
ScopeGuard_enter(identifier, kind) ==
    LET r == IF kind = "Task" THEN begin_task(identifier)
                              ELSE begin_group(identifier)
    IN  [ok |-> r.ok, err |-> r.err, stack |-> r.stack,
         guards |-> IF r.ok THEN Append(guards, kind) ELSE guards]

(* task_block / group_block up to the call of the body closure *)
ScopeEnter(identifier, kind) ==
    /\ ScriptApiReachable
    /\ LET r == ScopeGuard_enter(identifier, kind) IN
       /\ r.ok => opened < MaxScopes
       /\ context_stack' = r.stack
       /\ guards' = r.guards
       /\ opened' = IF r.ok THEN opened + 1 ELSE opened
       /\ last' = Call(IF kind = "Task" THEN "task" ELSE "group", r)
    /\ shadow' = ShadowBegin(kind, identifier)
    /\ UNCHANGED <<script_root, tasks, groups, root_entries, default_task, phase,
                   contexts, lookup, base_dir, cwd, scopes, spawned, launch_dir,
                   held, calls, argvars>>

(* Drop for ScopeGuard: the end call of the guard's kind; its error is logged *)
ScopeGuardDrop ==
    /\ guards # <<>>
    /\ LET r == IF Top(guards) = "Task" THEN end_task ELSE end_group IN
       /\ context_stack' = r.stack
       /\ tasks' = r.tasks
       /\ groups' = r.groups
       /\ root_entries' = r.roots
       /\ last' = Call(IF Top(guards) = "Task" THEN "end_task" ELSE "end_group", r)
    /\ guards' = Pop(guards)
    /\ shadow' = ShadowEnd(Top(guards))
    /\ UNCHANGED <<script_root, default_task, phase, contexts, lookup, opened,
                   base_dir, cwd, scopes, spawned, launch_dir, held, calls,
                   argvars>>

(* run_script returns once run_ast has: with Ok, or with the error a statement
   of the script raised after every native call it was raised in returned *)
RunScriptReturn(ok) ==
    /\ phase = "script"
    /\ guards = <<>>
    /\ held = <<>>
    /\ calls = <<>>
    /\ phase' = IF ok THEN "run" ELSE "failed"
    /\ last' = Call("run_script", IF ok THEN Ok ELSE Err(ScriptError))
    /\ UNCHANGED <<context_stack, script_root, tasks, groups, root_entries,
                   default_task, contexts, lookup, opened, shadow>>
    /\ UNCHANGED <<execvars, argvars>>

-----------------------------------------------------------------------------
(* The resolver on its own: a registry holding up to MaxTasks tasks under
   distinct full paths, in any registration order, queried with resolve_task. *)

PathInputs ==
    { <<"b">>, <<"a", ".", "b">>, <<"b", ".", "b">>, <<"a">>, <<"a", ".", "a", ".", "b">> }

IdentInputs ==
    { <<>>, <<" ">>, <<"b">>, <<" ", "b", " ">>, <<"a">>, <<"c">>,
      <<"a", ".", "b">>, <<" ", "a", ".", "b">>, <<"c", ".", "b">>, <<"b", ".", "a">> }

PathSeqs ==
    UNION { { q \in [1..n -> PathInputs] :
                \A i, j \in 1..n : i # j => q[i] # q[j] } : n \in 0..MaxTasks }

ResolveTask(identifier) ==
    /\ lookup' = Lookup(identifier, resolve_task(identifier))
    /\ last' = Call("resolve_task", Ok)
    /\ UNCHANGED <<context_stack, script_root, tasks, groups, root_entries,
                   default_task, phase, contexts, opened, shadow>>
    /\ UNCHANGED <<execvars, argvars>>

InitResolve ==
    /\ \E q \in PathSeqs :
          tasks = [i \in 1..Len(q) |-> [key |-> q[i], value |-> DefaultTask]]
    /\ context_stack = <<RootFrame>>
    /\ script_root = None
    /\ groups = <<>>
    /\ root_entries = <<>>
    /\ default_task = None
    /\ phase = "run"
    /\ contexts = <<>>
    /\ lookup = Lookup(<<>>, NotFound)
    /\ last = Call("new", Ok)
    /\ opened = 0
    /\ shadow = Unbalanced
    /\ base_dir = DirW
    /\ cwd = DirW
    /\ scopes = <<>>
    /\ parsed = Parsed(<<>>, ParseOk(<<>>, <<>>))
    /\ prepared = Prepared(<<>>, <<>>, <<>>, PrepareOk(<<>>))
    /\ spawned = {}
    /\ launch_dir = None
    /\ guards = <<>>
    /\ held = <<>>
    /\ calls = <<>>

NextResolve == \E identifier \in IdentInputs : ResolveTask(identifier)

SpecResolve == InitResolve /\ [][NextResolve]_vars

-----------------------------------------------------------------------------
(* Both resolvers: a registry holding up to MaxTasks tasks and groups in all,
   under distinct full paths, queried with resolve_task and resolve_group. *)

ResolveGroup(identifier) ==
    /\ lookup' = Lookup(identifier, resolve_group(identifier))
    /\ last' = Call("resolve_group", Ok)
    /\ UNCHANGED <<context_stack, script_root, tasks, groups, root_entries,
                   default_task, phase, contexts, opened, shadow>>
    /\ UNCHANGED <<execvars, argvars>>

InitGroups ==
    /\ \E q \in PathSeqs : \E n \in 0..Len(q) :
          /\ tasks = [i \in 1..n |-> [key |-> q[i], value |-> DefaultTask]]
          /\ groups = [i \in 1..(Len(q) - n) |->
                          [key |-> q[n + i], value |-> DefaultGroup]]
    /\ context_stack = <<RootFrame>>
    /\ script_root = None
    /\ root_entries = <<>>
    /\ default_task = None
    /\ phase = "run"
    /\ contexts = <<>>
    /\ lookup = Lookup(<<>>, NotFound)
    /\ last = Call("new", Ok)
    /\ opened = 0
    /\ shadow = Unbalanced
    /\ base_dir = DirW
    /\ cwd = DirW
    /\ scopes = <<>>
    /\ parsed = Parsed(<<>>, ParseOk(<<>>, <<>>))
    /\ prepared = Prepared(<<>>, <<>>, <<>>, PrepareOk(<<>>))
    /\ spawned = {}
    /\ launch_dir = None
    /\ guards = <<>>
    /\ held = <<>>
    /\ calls = <<>>

NextGroups ==
    \/ \E identifier \in IdentInputs : ResolveTask(identifier)
    \/ \E identifier \in IdentInputs : ResolveGroup(identifier)

SpecGroups == InitGroups /\ [][NextGroups]_vars

-----------------------------------------------------------------------------
(* The argument parser and binder on their own: a registry holding the task
   "t" with a parameter list as set_args stores it, parse_cli_arguments called
   on up to MaxArgs tokens and prepare_arguments_from_parts on up to MaxArgs
   positional values and up to MaxNamed named values. *)

SeqsUpTo(S, n) == UNION { [1..k -> S] : k \in 0..n }

DistinctKeys(m) == \A i, j \in 1..Len(m) : i # j => m[i].key # m[j].key

TokenInputs ==
    { <<"-", "-", "x">>, <<"-", "-", "x", "=", "1">>, <<"x", "=", "2">>, <<"3">>,
      <<>>, <<"-", "-", "y", "=", "1">> }

RawArgsInputs == SeqsUpTo(TokenInputs, MaxArgs)

PositionalInputs == SeqsUpTo({ <<"1">>, <<"2">> }, MaxArgs)

NamedEntryInputs ==
    { [key |-> <<"x">>, value |-> <<"3">>], [key |-> <<"y">>, value |-> <<"2">>],
      [key |-> <<"x", "y">>, value |-> <<"1">>] }

NamedInputs == { m \in SeqsUpTo(NamedEntryInputs, MaxNamed) : DistinctKeys(m) }

(* rhai Maps declaring parameters: distinct keys, listed in any order *)
ParamEntryInputs ==
    { [key |-> <<"x">>, value |-> Unit], [key |-> <<"x">>, value |-> Str(<<"d">>)],
      [key |-> <<"y">>, value |-> Unit], [key |-> <<"y">>, value |-> Str(<<"e">>)] }

ParamMapInputs == { m \in SeqsUpTo(ParamEntryInputs, MaxParams) : DistinctKeys(m) }

TaskT == <<"t">>

InitArgs ==
    /\ \E m \in ParamMapInputs :
          tasks = <<[key |-> TaskT,
                     value |-> [DefaultTask EXCEPT
                                  !.params = sort_by_name(MapEntries(m))]]>>
    /\ context_stack = <<RootFrame>>
    /\ script_root = None
    /\ groups = <<>>
    /\ root_entries = <<TaskEntry(TaskT)>>
    /\ default_task = None
    /\ phase = "run"
    /\ contexts = <<>>
    /\ lookup = Lookup(<<>>, NotFound)
    /\ last = Call("new", Ok)
    /\ opened = 0
    /\ shadow = Unbalanced
    /\ base_dir = DirW
    /\ cwd = DirW
    /\ scopes = <<>>
    /\ parsed = Parsed(<<>>, ParseOk(<<>>, <<>>))
    /\ prepared = Prepared(<<>>, <<>>, <<>>, PrepareOk(<<>>))
    /\ spawned = {}
    /\ launch_dir = None
    /\ guards = <<>>
    /\ held = <<>>
    /\ calls = <<>>

InitParse == InitArgs /\ tasks[1].value.params = <<>>

NextParse == \E raw_args \in RawArgsInputs : ParseCliArguments(raw_args)

SpecParse == InitParse /\ [][NextParse]_vars

NextBind ==
    \E positional \in PositionalInputs, named \in NamedInputs :
        PrepareArgumentsFromParts(TaskT, positional, named)

SpecBind == InitArgs /\ [][NextBind]_vars

-----------------------------------------------------------------------------
(* The run phase on its own: a registry holding up to MaxTasks tasks, with and
   without actions, parameters and a working directory, and run_task called
   once the script has been evaluated. *)

RunPathInputs == { <<"b">>, <<"a", ".", "b">>, <<"c", ".", "b">> }

RunTaskInputs ==
    { [DefaultTask EXCEPT !.actions = Some("f")],
      [DefaultTask EXCEPT !.actions = Some("g"),
                          !.params = <<ParameterSpec(<<"x">>, None)>>,
                          !.working_dir = Some(DirWD)],
      DefaultTask }

RunNameInputs == { <<"b">>, <<" ", "b", " ">>, <<"a", ".", "b">>, <<"c">> }

RunArgsInputs == { <<>>, <<<<"3">>>>, <<<<"-", "-", "x">>>> }

RunRegistries ==
    { m \in SeqsUpTo([key : RunPathInputs, value : RunTaskInputs], MaxTasks) :
          DistinctKeys(m) }

InitRun ==
    /\ tasks \in RunRegistries
    /\ context_stack = <<RootFrame>>
    /\ script_root = Some(DirW)
    /\ groups = <<>>
    /\ root_entries = <<>>
    /\ default_task = None
    /\ phase = "run"
    /\ contexts = <<>>
    /\ lookup = Lookup(<<>>, NotFound)
    /\ last = Call("run_script", Ok)
    /\ opened = 0
    /\ shadow = Unbalanced
    /\ base_dir = DirW
    /\ cwd = DirW
    /\ scopes = <<>>
    /\ parsed = Parsed(<<>>, ParseOk(<<>>, <<>>))
    /\ prepared = Prepared(<<>>, <<>>, <<>>, PrepareOk(<<>>))
    /\ spawned = {}
    /\ launch_dir = None
    /\ guards = <<>>
    /\ held = <<>>
    /\ calls = <<>>

NextRun ==
    \/ \E name \in RunNameInputs, raw_args \in RunArgsInputs, dir_fault \in DirFaults :
          RunTask(name, raw_args, dir_fault)
    \/ ActionBodyReturn

SpecRun == InitRun /\ [][NextRun]_vars

-----------------------------------------------------------------------------
(* Action scopes: a registry of up to two tasks, with and without actions, a
   parameter and a working directory; the script calls exec() and trigger()
   while it is evaluated, run_task is called afterwards, and the running
   bodies call exec() and trigger(), return and fail.  The process may have
   been started in the base directory or moved away from it since. *)

ActionPathInputs == { <<"a", ".", "b">>, <<"c", ".", "b">> }

ActionTaskInputs ==
    { [DefaultTask EXCEPT !.actions = Some("f")],
      [DefaultTask EXCEPT !.actions = Some("g"),
                          !.params = <<ParameterSpec(<<"x">>, None)>>,
                          !.working_dir = Some(DirWD)],
      [DefaultTask EXCEPT !.actions = Some("h"),
                          !.working_dir = Some(DirE)],
      DefaultTask }

ActionNameInputs == { <<"b">>, <<"a", ".", "b">>, <<"c", ".", "b">>, <<"c">> }

ActionArgsInputs == { <<>>, <<<<"3">>>> }

ActionRegistries ==
    { m \in SeqsUpTo([key : ActionPathInputs, value : ActionTaskInputs], MaxTasks) :
          DistinctKeys(m) }

InitAction ==
    /\ tasks \in ActionRegistries
    /\ context_stack = <<RootFrame>>
    /\ script_root = Some(DirW)
    /\ groups = <<>>
    /\ root_entries = <<>>
    /\ default_task = None
    /\ phase = "script"
    /\ contexts = <<>>
    /\ lookup = Lookup(<<>>, NotFound)
    /\ last = Call("set_script_root", Ok)
    /\ opened = 0
    /\ shadow = Unbalanced
    /\ base_dir = DirW
    /\ cwd \in { DirW, DirE }
    /\ scopes = <<>>
    /\ parsed = Parsed(<<>>, ParseOk(<<>>, <<>>))
    /\ prepared = Prepared(<<>>, <<>>, <<>>, PrepareOk(<<>>))
    /\ spawned = {}
    /\ launch_dir = None
    /\ guards = <<>>
    /\ held = <<>>
    /\ calls = <<>>

NextAction ==
    \/ FinishScript
    \/ \E name \in ActionNameInputs, raw_args \in ActionArgsInputs,
          dir_fault \in DirFaults :
          RunTask(name, raw_args, dir_fault)
    \/ \E name \in ActionNameInputs, positional \in ActionArgsInputs,
          dir_fault \in DirFaults :
          Trigger(name, positional, <<>>, dir_fault)
    \/ \E run_ok \in BOOLEAN : Exec(run_ok)
    \/ ActionBodyReturn
    \/ ActionBodyFail

SpecAction == InitAction /\ [][NextAction]_vars

-----------------------------------------------------------------------------
(* The declarations made inside task() and group(): the BuildStack after
   run_script has reset it and set the script root, driven call by call. *)

DeclareNameInputs == { <<" ", "a">> }

ArgsInputs ==
    { <<>>,
      <<[key |-> <<"y">>, value |-> Unit], [key |-> <<"x">>, value |-> Str(<<"d">>)]>>,
      <<[key |-> <<"x", "y">>, value |-> Unit]>> }

DirInputs == { <<" ">>, <<"d">>, <<" ", "l">>, DirE, <<"f">>, <<"e">> }

InitDeclare ==
    /\ context_stack = <<RootFrame>>
    /\ script_root = Some(DirW)
    /\ tasks = <<>>
    /\ groups = <<>>
    /\ root_entries = <<>>
    /\ default_task = None
    /\ phase = "script"
    /\ contexts = <<>>
    /\ lookup = Lookup(<<>>, NotFound)
    /\ last = Call("set_script_root", Ok)
    /\ opened = 0
    /\ shadow = Unbalanced
    /\ base_dir = DirW
    /\ cwd = DirW
    /\ scopes = <<>>
    /\ parsed = Parsed(<<>>, ParseOk(<<>>, <<>>))
    /\ prepared = Prepared(<<>>, <<>>, <<>>, PrepareOk(<<>>))
    /\ spawned = {}
    /\ launch_dir = None
    /\ guards = <<>>
    /\ held = <<>>
    /\ calls = <<>>

NextDeclare ==
    \/ \E name \in DeclareNameInputs : BeginTask(name)
    \/ \E name \in DeclareNameInputs : BeginGroup(name)
    \/ EndTask
    \/ EndGroup
    \/ \E func \in ActionInputs : SetActions(func)
    \/ \E params \in ArgsInputs : SetArgs(params)
    \/ \E desc \in DescInputs : SetDescription(desc)
    \/ \E path \in DirInputs : SetDirectory(path)

SpecDeclare == InitDeclare /\ [][NextDeclare]_vars

-----------------------------------------------------------------------------
(* The script evaluated by run_script, from the state reset and
   set_script_root leave, with the ScopeGuard of every task() and group(). *)

NextScript ==
    \/ \E name \in NameInputs, kind \in ScopeKinds : ScopeEnter(name, kind)
    \/ ScopeGuardDrop
    \/ \E func \in ActionInputs : SetActions(func)
    \/ \E desc \in DescInputs : SetDescription(desc)
    \/ \E ok \in BOOLEAN : RunScriptReturn(ok)

SpecScript == InitDeclare /\ [][NextScript]_vars

-----------------------------------------------------------------------------
(* Mutexes: the lock, unlock, early-return and closure-call points of every
   native call, in the order the thread passes them.  A MutexGuard is released
   where its binding goes out of scope; a `?` or an early return releases the
   guards of its own call that are alive there. *)

(* RuntimeHandle: the three mutexes *)
Mutexes == { "build_stack", "registry", "exec_state" }

LockOf(m) == [op |-> "lock", m |-> m]

UnlockOf(m) == [op |-> "unlock", m |-> m]

MayReturn == [op |-> "may_return", m |-> "-"]

InvokeClosure == [op |-> "invoke", m |-> "-"]

ReturnToCaller == [op |-> "return", m |-> "-"]

(* Faulty variant: the build stack stays locked while the body runs *)
task_block_locks_held_over_body ==
    << LockOf("build_stack"), LockOf("registry"), MayReturn,
       UnlockOf("registry"),
       InvokeClosure,
       LockOf("registry"), UnlockOf("registry"), UnlockOf("build_stack"),
       ReturnToCaller >>

(* task_block and group_block: ScopeGuard::enter, the body, Drop for
   ScopeGuard *)
task_block_locks ==
    << LockOf("build_stack"), LockOf("registry"), MayReturn,
       UnlockOf("registry"), UnlockOf("build_stack"),
       InvokeClosure,
       LockOf("build_stack"), LockOf("registry"),
       UnlockOf("registry"), UnlockOf("build_stack"),
       ReturnToCaller >>

(* with_build_stack, under actions(), description(), dir() and args() *)
with_build_stack_locks ==
    << LockOf("build_stack"), MayReturn, UnlockOf("build_stack"),
       ReturnToCaller >>

(* register_default_task *)
register_default_task_locks ==
    << LockOf("registry"), MayReturn, UnlockOf("registry"), ReturnToCaller >>

(* run_executor: ensure_actions_scope, apply_working_dir, Executor::run *)
run_executor_locks ==
    << LockOf("exec_state"), MayReturn, UnlockOf("exec_state"),
       LockOf("exec_state"), UnlockOf("exec_state"),
       MayReturn, ReturnToCaller >>

(* trigger_impl: the lookup, the arguments, is_active, start_nested, the
   triggered body, Drop for ActionScope *)
trigger_impl_locks ==
    << LockOf("registry"), UnlockOf("registry"), MayReturn,
       LockOf("registry"), MayReturn, UnlockOf("registry"),
       LockOf("exec_state"), MayReturn, UnlockOf("exec_state"),
       MayReturn,
       LockOf("exec_state"), MayReturn, UnlockOf("exec_state"),
       InvokeClosure,
       LockOf("exec_state"), UnlockOf("exec_state"),
       ReturnToCaller >>

(* ScriptEngine::run_task: the lookup, the arguments, ActionScope::start, the
   action body, Drop for ActionScope *)
run_task_locks ==
    << LockOf("registry"), UnlockOf("registry"), MayReturn,
       LockOf("registry"), MayReturn, UnlockOf("registry"),
       MayReturn,
       LockOf("exec_state"), MayReturn, UnlockOf("exec_state"),
       InvokeClosure,
       LockOf("exec_state"), UnlockOf("exec_state"),
       ReturnToCaller >>

(* ScriptEngine::run_script: reset and set_script_root, compile_file, run_ast *)
run_script_locks ==
    << MayReturn,
       LockOf("build_stack"), UnlockOf("build_stack"),
       MayReturn,
       InvokeClosure,
       ReturnToCaller >>

(* The functions a script can call, and the entry points of the engine *)
NativeCalls ==
    { "task", "group", "actions", "description", "dir", "args", "default_task",
      "exec", "trigger" }

EngineCalls == { "run_script", "run_task" }

LockSteps(fn) ==
    CASE fn \in { "task", "group" } -> task_block_locks
      [] fn \in { "actions", "description", "dir", "args" } -> with_build_stack_locks
      [] fn = "default_task" -> register_default_task_locks
      [] fn = "exec" -> run_executor_locks
      [] fn = "trigger" -> trigger_impl_locks
      [] fn = "run_task" -> run_task_locks
      [] fn = "run_script" -> run_script_locks

CallFrame(fn, base) == [fn |-> fn, pc |-> 1, base |-> base]

(* The point the innermost call has reached *)
Instr == LockSteps(Top(calls).fn)[Top(calls).pc]

Advance == [calls EXCEPT ![Len(calls)].pc = @ + 1]

statevars ==
    <<context_stack, script_root, tasks, groups, root_entries, default_task,
      phase, contexts, lookup, last, opened, shadow, base_dir, cwd, scopes,
      parsed, prepared, spawned, launch_dir, guards>>

(* main calls run_script or run_task *)
EngineCall(fn) ==
    /\ calls = <<>>
    /\ calls' = <<CallFrame(fn, 0)>>
    /\ UNCHANGED <<held, statevars>>

(* Mutex::lock: returns once the mutex is free; a thread that holds the mutex
   already never gets it *)
AcquireLock ==
    /\ calls # <<>>
    /\ Instr.op = "lock"
    /\ \A i \in 1..Len(held) : held[i] # Instr.m
    /\ held' = Append(held, Instr.m)
    /\ calls' = Advance
    /\ UNCHANGED statevars

(* A MutexGuard goes out of scope *)
ReleaseLock ==
    /\ calls # <<>>
    /\ Instr.op = "unlock"
    /\ held' = SelectSeq(held, LAMBDA m : m # Instr.m)
    /\ calls' = Advance
    /\ UNCHANGED statevars

(* A `?` or a match arm that may return: the call goes on *)
Proceed ==
    /\ calls # <<>>
    /\ Instr.op = "may_return"
    /\ calls' = Advance
    /\ UNCHANGED <<held, statevars>>

(* A `?` or a match arm that may return: the call returns, and the guards it
   holds are dropped *)
EarlyReturn ==
    /\ calls # <<>>
    /\ Instr.op = "may_return"
    /\ held' = SubSeq(held, 1, Top(calls).base)
    /\ calls' = Pop(calls)
    /\ UNCHANGED statevars

(* The closure that is running calls a native function *)
ClosureCalls(fn) ==
    /\ calls # <<>>
    /\ Instr.op = "invoke"
    /\ Len(calls) <= MaxDepth
    /\ calls' = Append(calls, CallFrame(fn, Len(held)))
    /\ UNCHANGED <<held, statevars>>

(* The closure returns, with a value or with an error *)
ClosureReturns ==
    /\ calls # <<>>
    /\ Instr.op = "invoke"
    /\ calls' = Advance
    /\ UNCHANGED <<held, statevars>>

ReturnFromCall ==
    /\ calls # <<>>
    /\ Instr.op = "return"
    /\ calls' = Pop(calls)
    /\ UNCHANGED <<held, statevars>>

NextLocks ==
    \/ \E fn \in EngineCalls : EngineCall(fn)
    \/ AcquireLock
    \/ ReleaseLock
    \/ Proceed
    \/ EarlyReturn
    \/ \E fn \in NativeCalls : ClosureCalls(fn)
    \/ ClosureReturns
    \/ ReturnFromCall

SpecLocks == InitDeclare /\ [][NextLocks]_vars

-----------------------------------------------------------------------------
(* Properties *)

ClosedPaths(kind) == { c.path : c \in { x \in shadow.closed : x.kind = kind } }

NoDuplicateKeys(m) == Len(m) = Cardinality(Keys(m))

(* C1: after a balanced sequence of begin/end calls on a fresh stack and an
   empty registry that declares no full path twice, every call has succeeded,
   the task keys are exactly the dot-joined ancestor paths of the closed task
   scopes and the group keys those of the closed group scopes, one entry each. *)
C1_BalancedRegistryKeys ==
    /\ (shadow.balanced /\ last.op \in {"begin_task", "begin_group",
                                        "end_task", "end_group"}) => last.ok
    /\ (shadow.balanced /\ shadow.open = <<>>) =>
          /\ Keys(tasks) = ClosedPaths("Task")
          /\ Keys(groups) = ClosedPaths("Group")
          /\ NoDuplicateKeys(tasks)
          /\ NoDuplicateKeys(groups)
          /\ Len(tasks) + Len(groups) = Cardinality(shadow.closed)

C1_Witness ==
    /\ shadow.balanced
    /\ shadow.open = <<>>
    /\ \E g, t \in shadow.closed :
          /\ g.kind = "Group"
          /\ t.kind = "Task"
          /\ t.path = g.path \o <<".", "b">>
    /\ last.op = "end_group"

(* C2: no full path is a key of both Registry.tasks and Registry.groups. *)
C2_TaskGroupKeysDisjoint == Keys(tasks) \cap Keys(groups) = {}

C2_Witness ==
    /\ last.op = "begin_group"
    /\ ~last.ok
    /\ last.err.fmt = "Group '{}' is already defined as a task."
    /\ last.err.arg \in Keys(tasks)

(* The full path begin_task/begin_group computes for the trimmed name n when
   the top frame is the root or a group *)
ChildPath(n) ==
    IF Top(context_stack).kind = "Root" THEN n
    ELSE Top(context_stack).full_path \o <<".">> \o n

CanDeclare(name) ==
    /\ trim(name) # <<>>
    /\ context_stack # <<>>
    /\ Top(context_stack).kind \in {"Root", "Group"}

IsTask(path) == path \in Keys(tasks) \/ OpenFrame("Task", path)

IsGroup(path) == path \in Keys(groups) \/ OpenFrame("Group", path)

Rejected(fmt, path) ==
    /\ last'.ok = FALSE
    /\ last'.err = Msg(fmt, path)
    /\ UNCHANGED <<context_stack, tasks, groups, root_entries, default_task>>

(* C3: a begin_task whose full path is already a task fails with "Task
   '<path>' is already defined.", one whose path is already a group fails with
   "Task '<path>' is already defined as a group."; begin_group likewise with the
   roles swapped; no frame is pushed and the registry is unchanged. *)
C3_RedefinitionRejected ==
    [][\A name \in NameInputs :
          LET path == ChildPath(trim(name)) IN
          /\ (BeginTask(name) /\ CanDeclare(name) /\ IsTask(path))
                => Rejected("Task '{}' is already defined.", path)
          /\ (BeginTask(name) /\ CanDeclare(name) /\ ~IsTask(path) /\ IsGroup(path))
                => Rejected("Task '{}' is already defined as a group.", path)
          /\ (BeginGroup(name) /\ CanDeclare(name) /\ IsGroup(path))
                => Rejected("Group '{}' is already defined.", path)
          /\ (BeginGroup(name) /\ CanDeclare(name) /\ ~IsGroup(path) /\ IsTask(path))
                => Rejected("Group '{}' is already defined as a task.", path)]_vars

C3_Witness ==
    /\ last.op = "begin_task"
    /\ ~last.ok
    /\ last.err.fmt = "Task '{}' is already defined."
    /\ last.err.arg = <<"a", ".", "b">>
    /\ last.err.arg \in Keys(tasks)
    /\ Len(context_stack) = 2

EndTaskMismatch ==
    { "context mismatch: end_task() called while inside group().",
      "context mismatch: end_task() called before task() was started." }

EndGroupMismatch ==
    { "context mismatch: task() scope was not closed before ending group().",
      "context mismatch: end_group() called before group() was started." }

TopKindIn(kinds) == context_stack # <<>> /\ Top(context_stack).kind \in kinds

(* C4: end_task on a top frame that is a group frame or the root returns a
   context-mismatch error and leaves tasks, groups and root_entries as they
   were; end_group likewise on a task frame or the root. *)
C4_MismatchedEndFinalizesNothing ==
    [][/\ (EndTask /\ TopKindIn({"Group", "Root"})) =>
              /\ last'.ok = FALSE
              /\ last'.err.fmt \in EndTaskMismatch
              /\ UNCHANGED <<tasks, groups, root_entries>>
       /\ (EndGroup /\ TopKindIn({"Task", "Root"})) =>
              /\ last'.ok = FALSE
              /\ last'.err.fmt \in EndGroupMismatch
              /\ UNCHANGED <<tasks, groups, root_entries>>]_vars

C4_Witness ==
    /\ last.op = "end_task"
    /\ ~last.ok
    /\ last.err.fmt = "context mismatch: end_task() called while inside group()."
    /\ tasks # <<>>

(* C5: a task or group finalized into the registry keeps its path and its
   stored value through every later operation. *)
C5_FinalizedEntriesImmutable ==
    [][/\ \A k \in Keys(tasks) :
              k \in Keys(tasks') /\ Value(tasks', k) = Value(tasks, k)
       /\ \A k \in Keys(groups) :
              k \in Keys(groups') /\ Value(groups', k) = Value(groups, k)]_vars

C5_Witness ==
    /\ Len(tasks) = 2
    /\ tasks[1].value.actions = Some("f")
    /\ tasks[2].value.actions = None
    /\ last.op = "begin_task"
    /\ ~last.ok
    /\ last.err.arg = tasks[1].key

(* C6: once script evaluation has finished, nothing reachable during task
   execution changes Registry.tasks, groups, root_entries or default_task. *)
C6_RegistryFrozenAfterScript ==
    [][phase = "run" =>
          UNCHANGED <<tasks, groups, root_entries, default_task>>]_vars

(* C7: a set_default_task whose name trims to empty fails and leaves
   default_task as it was; the first call with a non-blank name stores the
   trimmed name; every later call fails and the stored name stays. *)
C7_DefaultTaskSetOnce ==
    [][/\ \A name \in DefaultInputs :
              SetDefaultTask(name) =>
                 IF trim(name) = <<>>
                 THEN last'.ok = FALSE /\ default_task' = default_task
                 ELSE IF default_task = None
                 THEN last'.ok = TRUE /\ default_task' = Some(trim(name))
                 ELSE last'.ok = FALSE /\ default_task' = default_task
       /\ default_task # None => default_task' = default_task]_vars

C7_Witness ==
    /\ default_task = Some(<<"b">>)
    /\ last.op = "set_default_task"
    /\ ~last.ok
    /\ last.err.fmt = "default_task() can only be defined once per rhaskfile."

LeafCount(leaf) == Cardinality({ k \in Keys(tasks) : leaf_name(k) = leaf })

Resolved == last.op = "resolve_task"

(* C8: an identifier that trims to the full path of a registered task resolves
   to Found with that path, however many tasks share its leaf name. *)
C8_ExactPathFound ==
    (Resolved /\ trim(lookup.identifier) \in Keys(tasks)) =>
        lookup.result = Found(trim(lookup.identifier))

C8_Witness ==
    /\ Resolved
    /\ lookup.identifier = <<" ", "b", " ">>
    /\ lookup.result = Found(<<"b">>)
    /\ LeafCount(<<"b">>) >= 3

IsBare(identifier) ==
    /\ identifier # <<>>
    /\ identifier = trim(identifier)
    /\ ~contains_dot(identifier)

LeafRule(identifier) ==
    /\ lookup.result.kind = "Ambiguous" <=> LeafCount(identifier) >= 2
    /\ lookup.result.kind = "NotFound" <=> LeafCount(identifier) = 0
    /\ lookup.result.kind = "Found" <=> LeafCount(identifier) = 1
    /\ lookup.result.kind = "Ambiguous" =>
          /\ { lookup.result.paths[i] : i \in 1..Len(lookup.result.paths) }
                = { k \in Keys(tasks) : leaf_name(k) = identifier }
          /\ Len(lookup.result.paths) = LeafCount(identifier)

(* C9 as stated: a bare identifier resolves to Ambiguous with all matching
   paths iff at least two tasks have that leaf name, NotFound iff none, Found
   iff exactly one. *)
C9_BareLeafRule ==
    (Resolved /\ IsBare(lookup.identifier)) => LeafRule(lookup.identifier)

(* C9 amended: the rule holds for a bare identifier that is not itself the
   full path of a registered task, Found then naming the one task with that
   leaf; a bare identifier that is a registered full path resolves to Found
   with that path. *)
C9_BareLeafRuleUnlessExact ==
    (Resolved /\ IsBare(lookup.identifier)) =>
        IF lookup.identifier \in Keys(tasks)
        THEN lookup.result = Found(lookup.identifier)
        ELSE /\ LeafRule(lookup.identifier)
             /\ lookup.result.kind = "Found" =>
                   /\ lookup.result.paths[1] \in Keys(tasks)
                   /\ leaf_name(lookup.result.paths[1]) = lookup.identifier

C9_Witness ==
    /\ Resolved
    /\ lookup.identifier = <<"b">>
    /\ lookup.result = Ambiguous(<<<<"b", ".", "b">>, <<"a", ".", "b">>>>)

(* C10: an identifier whose trimmed form contains '.' resolves to Found with
   that exact string when it is a registered task path and to NotFound
   otherwise, also when its last segment is the leaf of registered tasks. *)
C10_DottedNeverLeafMatched ==
    (Resolved /\ contains_dot(trim(lookup.identifier))) =>
        lookup.result = IF trim(lookup.identifier) \in Keys(tasks)
                        THEN Found(trim(lookup.identifier))
                        ELSE NotFound

C10_Witness ==
    /\ Resolved
    /\ lookup.identifier = <<"c", ".", "b">>
    /\ lookup.result = NotFound
    /\ LeafCount(<<"b">>) >= 2

SeqSet(q) == { q[i] : i \in 1..Len(q) }

(* C11: a run_task whose name resolves to NotFound or Ambiguous returns an
   error, for Ambiguous one that lists every task whose leaf is the name, in
   registration order; it starts no action body, opens no action scope and
   leaves the working directory where it was. *)
C11_UnresolvedNameRunsNothing ==
    [][\A name \in RunNameInputs :
          LET found == resolve_task(name) IN
          ((\E raw_args \in RunArgsInputs, dir_fault \in DirFaults :
                RunTask(name, raw_args, dir_fault))
           /\ found.kind \in {"NotFound", "Ambiguous"}) =>
              /\ last'.ok = FALSE
              /\ UNCHANGED <<contexts, scopes, cwd>>
              /\ found.kind = "NotFound" =>
                    last'.err = Msg("Task '{}' does not exist.", name)
              /\ found.kind = "Ambiguous" =>
                    /\ last'.err = AmbiguousMsg(name, found.paths)
                    /\ SeqSet(last'.err.list) =
                          { k \in Keys(tasks) : leaf_name(k) = trim(name) }
                    /\ Len(last'.err.list) = LeafCount(trim(name))]_vars

C11_Witness ==
    /\ last.op = "run_task"
    /\ ~last.ok
    /\ lookup.result.kind = "Ambiguous"
    /\ last.err = AmbiguousMsg(<<" ", "b", " ">>,
                               <<<<"c", ".", "b">>, <<"a", ".", "b">>>>)
    /\ \A i \in 1..Len(tasks) : tasks[i].value.actions # None
    /\ scopes = <<>>
    /\ cwd = base_dir

(* The binder's last call, read against the parameters of the task it named *)
Bound == last.op = "prepare_arguments_from_parts"

BoundParams == Value(tasks, prepared.task_name).params

GivenByName(i) == contains_key(prepared.named, BoundParams[i].name)

(* The number of positional values the parameters before the i-th have taken *)
PositionalBefore(i) ==
    Cardinality({ j \in 1..(i - 1) : ~GivenByName(j) })

UnnamedParams == Cardinality({ j \in 1..Len(BoundParams) : ~GivenByName(j) })

ExpectedValue(i) ==
    IF GivenByName(i) THEN Value(prepared.named, BoundParams[i].name)
    ELSE IF PositionalBefore(i) < Len(prepared.positional)
    THEN prepared.positional[PositionalBefore(i) + 1]
    ELSE BoundParams[i].default[1]

(* C12: for a task with parameters, a successful binding has one value per
   declared parameter in stored order: the named value with the parameter's
   key if one was given, otherwise the next positional value not yet taken,
   otherwise the declared default. *)
C12_BindingOrder ==
    (Bound /\ BoundParams # <<>> /\ prepared.result.ok) =>
        /\ Len(prepared.result.values) = Len(BoundParams)
        /\ \A i \in 1..Len(BoundParams) :
              /\ GivenByName(i) \/ PositionalBefore(i) < Len(prepared.positional)
                    \/ BoundParams[i].default # None
              /\ prepared.result.values[i] = ExpectedValue(i)

C12_Witness ==
    /\ Bound
    /\ prepared.result.ok
    /\ Len(BoundParams) = 2
    /\ BoundParams[2].default # None
    /\ prepared.named = <<[key |-> <<"x">>, value |-> <<"3">>]>>
    /\ prepared.positional = <<<<"1">>>>
    /\ prepared.result.values = <<<<"3">>, <<"1">>>>

(* C13: for a task without parameters the binding succeeds, with no values,
   exactly when no positional and no named value is given; otherwise it fails
   with "Task '<name>' does not accept arguments." *)
C13_NoParamsNoArguments ==
    (Bound /\ BoundParams = <<>>) =>
        IF prepared.positional = <<>> /\ prepared.named = <<>>
        THEN prepared.result = PrepareOk(<<>>)
        ELSE prepared.result =
                PrepareErr(Msg("Task '{}' does not accept arguments.",
                               prepared.task_name))

C13_Witness ==
    /\ Bound
    /\ BoundParams = <<>>
    /\ prepared.positional = <<>>
    /\ Len(prepared.named) = 1
    /\ ~prepared.result.ok
    /\ prepared.result.err.fmt = "Task '{}' does not accept arguments."

AllParamsBindable ==
    \A i \in 1..Len(BoundParams) :
        \/ GivenByName(i)
        \/ PositionalBefore(i) < Len(prepared.positional)
        \/ BoundParams[i].default # None

NoPositionalLeft == Len(prepared.positional) <= UnnamedParams

Declared(k) == \E i \in 1..Len(BoundParams) : BoundParams[i].name = k

(* The named keys that are no declared parameter, in the order supplied *)
UnknownKeys ==
    LET Undeclared(k) == ~Declared(k)
    IN  SelectSeq(KeysOf(prepared.named), Undeclared)

UnknownRejected ==
    prepared.result =
        PrepareErr(Msg("Unknown argument(s): {}", join(UnknownKeys, <<",", " ">>)))

(* C14 as stated: when every declared parameter can be bound and no positional
   value is left over, a named key that is no declared parameter makes the
   binding fail with "Unknown argument(s): " and the undeclared keys,
   comma-joined in the order supplied. *)
C14_UnknownNamedRejected ==
    (Bound /\ AllParamsBindable /\ NoPositionalLeft /\ UnknownKeys # <<>>) =>
        UnknownRejected

(* C14 amended: the same for a task that declares at least one parameter; a
   task without parameters fails with "Task '<name>' does not accept
   arguments." instead. *)
C14_UnknownNamedRejectedWithParams ==
    (Bound /\ AllParamsBindable /\ NoPositionalLeft /\ UnknownKeys # <<>>) =>
        IF BoundParams # <<>>
        THEN UnknownRejected
        ELSE prepared.result =
                PrepareErr(Msg("Task '{}' does not accept arguments.",
                               prepared.task_name))

C14_Witness ==
    /\ Bound
    /\ Len(BoundParams) = 1
    /\ BoundParams[1].name = <<"x">>
    /\ prepared.positional = <<<<"1">>>>
    /\ KeysOf(prepared.named) = <<<<"x", "y">>, <<"y">>>>
    /\ prepared.result =
          PrepareErr(Msg("Unknown argument(s): {}", <<"x", "y", ",", " ", "y">>))

ExtraPositionalRejected ==
    prepared.result =
        PrepareErr(Msg("Unexpected positional argument '{}' provided.",
                       prepared.positional[UnnamedParams + 1]))

(* C15 as stated: when more positional values are given than there are
   declared parameters without a named value, the binding fails with
   "Unexpected positional argument '<value>' provided." naming the first
   positional value left over. *)
C15_ExtraPositionalRejected ==
    (Bound /\ Len(prepared.positional) > UnnamedParams) => ExtraPositionalRejected

(* C15 amended: the same for a task that declares at least one parameter; a
   task without parameters fails with "Task '<name>' does not accept
   arguments." instead. *)
C15_ExtraPositionalRejectedWithParams ==
    (Bound /\ Len(prepared.positional) > UnnamedParams) =>
        IF BoundParams # <<>>
        THEN ExtraPositionalRejected
        ELSE prepared.result =
                PrepareErr(Msg("Task '{}' does not accept arguments.",
                               prepared.task_name))

C15_Witness ==
    /\ Bound
    /\ Len(BoundParams) = 2
    /\ KeysOf(prepared.named) = <<<<"y">>>>
    /\ prepared.positional = <<<<"1">>, <<"2">>>>
    /\ prepared.result =
          PrepareErr(Msg("Unexpected positional argument '{}' provided.", <<"2">>))

(* The parser's last call, read token by token *)
ParsedCall == last.op = "parse_cli_arguments"

Dashes == <<"-", "-">>

(* A token "--name": an option without '=' *)
IsBareOption(t) == starts_with(t, Dashes) /\ Len(t) > 2 /\ ~contains(t, "=")

(* A token that may serve as the value of the "--name" before it *)
Takeable(t) == t # <<>> /\ ~starts_with(t, Dashes) /\ ~contains(t, "=")

HasValueToken(raw_args, i) == i + 1 <= Len(raw_args) /\ Takeable(raw_args[i + 1])

OptionsLackingValue(raw_args) ==
    { i \in 1..Len(raw_args) :
        IsBareOption(raw_args[i]) /\ ~HasValueToken(raw_args, i) }

(* Tokens that are neither an option, nor key=value, nor the value of the
   "--name" before them *)
IsPositionalToken(raw_args, i) ==
    /\ ~starts_with(raw_args[i], Dashes)
    /\ ~contains(raw_args[i], "=")
    /\ ~(i > 1 /\ IsBareOption(raw_args[i - 1]))

PositionalTokens(raw_args) ==
    LET idx == { i \in 1..Len(raw_args) : IsPositionalToken(raw_args, i) }
        Nth(n) == CHOOSE i \in idx : Cardinality({ j \in idx : j < i }) = n - 1
    IN  [n \in 1..Cardinality(idx) |-> raw_args[Nth(n)]]

(* C16: a token "--name" takes the token after it as its value only if that
   token exists, is non-empty, does not start with "--" and contains no '=';
   otherwise parsing fails with "Option '--name' is missing a value."; a token
   taken as a value is not added to positional. *)
C16_OptionValueToken ==
    ParsedCall =>
        LET raw_args == parsed.raw_args
            lacking == OptionsLackingValue(raw_args)
        IN  IF lacking # {}
            THEN parsed.result =
                    ParseErr(MissingValueMsg(
                        SubSeq(raw_args[SetMin(lacking)], 3,
                               Len(raw_args[SetMin(lacking)]))))
            ELSE /\ parsed.result.ok
                 /\ parsed.result.positional = PositionalTokens(raw_args)

(* The key and value token i gives to the named map, None when it gives none *)
Contribution(raw_args, i) ==
    LET t == raw_args[i] IN
    IF starts_with(t, Dashes)
    THEN IF contains(t, "=")
         THEN split_once(SubSeq(t, 3, Len(t)), "=")
         ELSE IF i + 1 <= Len(raw_args)
         THEN Some([key |-> SubSeq(t, 3, Len(t)), value |-> raw_args[i + 1]])
         ELSE None
    ELSE IF contains(t, "=") THEN split_once(t, "=")
    ELSE None

Occurrences(raw_args, k) ==
    { i \in 1..Len(raw_args) :
        /\ Contribution(raw_args, i) # None
        /\ Contribution(raw_args, i)[1].key = k }

GivenKeys(raw_args) ==
    { Contribution(raw_args, i)[1].key :
        i \in { j \in 1..Len(raw_args) : Contribution(raw_args, j) # None } }

(* C17: after a successful parse the named map has exactly one entry for each
   key given, in whatever form, and its value is that of the key's last
   occurrence in token order. *)
C17_LastOccurrenceWins ==
    (ParsedCall /\ parsed.result.ok) =>
        /\ DistinctKeys(parsed.result.named)
        /\ Keys(parsed.result.named) = GivenKeys(parsed.raw_args)
        /\ \A k \in Keys(parsed.result.named) :
              Value(parsed.result.named, k) =
                 Contribution(parsed.raw_args,
                              SetMax(Occurrences(parsed.raw_args, k)))[1].value

C17_Witness ==
    /\ ParsedCall
    /\ parsed.raw_args = <<<<"-", "-", "x">>, <<"3">>, <<"x", "=", "2">>>>
    /\ parsed.result = ParseOk(<<>>, <<[key |-> <<"x">>, value |-> <<"2">>]>>)

StrictlyAscending(params) ==
    \A i \in 1..(Len(params) - 1) : StrLess(params[i].name, params[i + 1].name)

(* The parameter list set_args is to store for a map: one entry per key with
   the key's default, whatever their order *)
HoldsEntriesOf(stored, params) ==
    /\ Len(stored) = Len(params)
    /\ \A i \in 1..Len(params) :
          \E j \in 1..Len(stored) :
             /\ stored[j].name = params[i].key
             /\ stored[j].default = IF params[i].value.unit THEN None
                                    ELSE Some(params[i].value.text)

(* C18: the params list of every finalized task and of every open task frame
   is strictly ascending by name, and a set_args on an open task scope leaves
   that task with exactly the entries of the map it was given, whatever an
   earlier set_args stored. *)
C18_ParamsSortedAndReplaced ==
    [][/\ \A i \in 1..Len(tasks') : StrictlyAscending(tasks'[i].value.params)
       /\ \A i \in 1..Len(context_stack') :
              StrictlyAscending(context_stack'[i].task.params)
       /\ \A params \in ArgsInputs :
              (SetArgs(params) /\ TopKindIn({"Task"})) =>
                  /\ last'.ok
                  /\ HoldsEntriesOf(Top(context_stack').task.params, params)]_vars

C18_Witness ==
    /\ last.op = "end_task"
    /\ last.ok
    /\ Len(tasks) = 1
    /\ tasks[1].value.params =
          <<ParameterSpec(<<"x">>, Some(<<"d">>)), ParameterSpec(<<"y">>, None)>>

DirOnceMsg == Msg("dir() can only be defined once per task().", <<>>)

(* C19: a set_directory on a task scope that already has a working directory
   fails with "dir() can only be defined once per task()." and leaves the
   stored directory as it was, and a task scope starts without a directory. *)
C19_DirectoryOncePerTask ==
    [][/\ \A path \in DirInputs :
              (/\ SetDirectory(path)
               /\ TopKindIn({"Task"})
               /\ Top(context_stack).task.working_dir # None) =>
                  /\ last'.ok = FALSE
                  /\ last'.err = DirOnceMsg
                  /\ context_stack' = context_stack
       /\ \A name \in DeclareNameInputs :
              (BeginTask(name) /\ last'.ok) =>
                  Top(context_stack').task.working_dir = None]_vars

C19_Witness ==
    /\ last.op = "set_directory"
    /\ ~last.ok
    /\ last.err = DirOnceMsg
    /\ Top(context_stack).task.working_dir = Some(DirWD)

RegistryUnchanged == UNCHANGED <<tasks, groups, root_entries, default_task>>

(* A setter that failed on its guard: its message, nothing changed *)
GuardFailed(fmt) ==
    /\ last'.ok = FALSE
    /\ last'.err = Msg(fmt, <<>>)
    /\ context_stack' = context_stack
    /\ RegistryUnchanged

(* A setter that succeeded: the top frame is one of kinds, and only it changed *)
OnlyTopChanged(kinds) ==
    last'.ok =>
        /\ TopKindIn(kinds)
        /\ Len(context_stack') = Len(context_stack)
        /\ Pop(context_stack') = Pop(context_stack)
        /\ Top(context_stack').kind = Top(context_stack).kind
        /\ Top(context_stack').full_path = Top(context_stack).full_path
        /\ RegistryUnchanged

(* C20: set_actions, set_args and set_directory succeed only on a task frame
   and set_description only on a task or group frame; on any other top frame
   each fails with its own message and changes neither the frame stack nor the
   registry; a successful call changes the top frame only. *)
C20_SettersGuarded ==
    [][/\ \A func \in ActionInputs :
              SetActions(func) =>
                 /\ OnlyTopChanged({"Task"})
                 /\ TopKindIn({"Group", "Root"}) =>
                       GuardFailed("actions() can only be used inside task(). Call task() first.")
       /\ \A params \in ArgsInputs :
              SetArgs(params) =>
                 /\ OnlyTopChanged({"Task"})
                 /\ TopKindIn({"Group", "Root"}) =>
                       GuardFailed("args() can only be used inside task().")
       /\ \A path \in DirInputs :
              SetDirectory(path) =>
                 /\ OnlyTopChanged({"Task"})
                 /\ TopKindIn({"Group", "Root"}) =>
                       GuardFailed("dir() can only be used inside task().")
       /\ \A desc \in DescInputs :
              SetDescription(desc) =>
                 /\ OnlyTopChanged({"Task", "Group"})
                 /\ TopKindIn({"Root"}) =>
                       GuardFailed("description() can only be used inside task() or group().")]_vars

C20_Witness ==
    /\ last.op = "set_args"
    /\ ~last.ok
    /\ last.err = Msg("args() can only be used inside task().", <<>>)
    /\ TopKindIn({"Group"})
    /\ tasks # <<>>

-----------------------------------------------------------------------------
(* Action scopes *)

ExecStep == \E run_ok \in BOOLEAN : Exec(run_ok)

TriggerStep(name) ==
    \E positional \in ActionArgsInputs, dir_fault \in DirFaults :
        Trigger(name, positional, <<>>, dir_fault)

(* The directory a task declares, the base directory when it declares none *)
DeclaredDir(full_path) ==
    IF Value(tasks, full_path).working_dir # None
    THEN Value(tasks, full_path).working_dir[1]
    ELSE base_dir

(* C21: exec() fails with "exec() can only be used inside actions()." exactly
   when no action scope is open, that is when contexts is empty, and then no
   command is run; with a scope open the command is run, in the directory of
   the innermost context. *)
C21_ExecOnlyInsideActions ==
    [][ExecStep =>
          /\ (contexts = <<>>) <=>
                (last' = Call("exec", Err(actions_only_error(ExecLabel))))
          /\ contexts = <<>> => spawned' = spawned
          /\ contexts # <<>> => spawned' = spawned \cup {apply_working_dir}]_vars

C21_Witness ==
    /\ phase = "script"
    /\ contexts = <<>>
    /\ tasks # <<>>
    /\ last = Call("exec", Err(actions_only_error(ExecLabel)))
    /\ spawned = {}

(* C22: trigger() called with no action scope open fails with "trigger() can
   only be used inside actions()." whatever its target name resolves to, and
   pushes no context and changes no directory. *)
C22_TriggerOutsideActionsRejected ==
    [][\A name \in ActionNameInputs :
          (contexts = <<>> /\ TriggerStep(name)) =>
              /\ last' = Call("trigger", Err(actions_only_error(TriggerLabel)))
              /\ UNCHANGED <<contexts, cwd>>]_vars

(* C23: once a run_task call that opened an action scope has returned, with
   success or with an error raised at any depth of trigger(), every scope is
   closed: contexts is empty and the working directory is the one that was
   current when run_task was called. *)
C23_ScopesClosedOnReturn ==
    /\ Len(contexts) = Len(scopes)
    /\ (launch_dir # None /\ scopes = <<>>) =>
          /\ contexts = <<>>
          /\ cwd = launch_dir[1]

C23_Witness ==
    /\ scopes = <<>>
    /\ launch_dir = Some(DirE)
    /\ last = Call("run_task", Err(ScriptError))
    /\ DirWD \in spawned
    /\ DirW \in spawned

(* C24: action scopes close in the reverse order of their opening, each exit
   sets the working directory to the one current when that scope was entered,
   and a scope entered for a task that declares a directory runs in it, also
   when the task was triggered from the action of another task. *)
C24_NestedScopeDirectories ==
    [][/\ contexts' # contexts =>
             \/ /\ Len(contexts') = Len(contexts) + 1
                /\ Pop(contexts') = contexts
             \/ contexts' = Pop(contexts)
       /\ Len(scopes') = Len(scopes) + 1 =>
             /\ Top(scopes').previous_dir = Some(cwd)
             /\ Value(tasks, Top(scopes').task).working_dir # None =>
                   cwd' = Value(tasks, Top(scopes').task).working_dir[1]
       /\ (scopes # <<>> /\ scopes' = Pop(scopes)) =>
             cwd' = Top(scopes).previous_dir[1]]_vars

(* C25: trigger() called inside an action with a target name that is not
   found or is ambiguous returns an error to the triggering action, and opens
   no scope. *)
C25_TriggerUnresolvedFails ==
    [][\A name \in ActionNameInputs :
          (/\ contexts # <<>>
           /\ resolve_task(name).kind # "Found"
           /\ TriggerStep(name)) =>
              /\ ~last'.ok
              /\ UNCHANGED <<contexts, cwd>>]_vars

(* C26: trigger() called inside an action on a task that has no actions fails
   with "Task '<path>' has no actions() registered." and opens no scope. *)
C26_TriggerNoActionsFails ==
    [][\A name \in ActionNameInputs :
          (/\ contexts # <<>>
           /\ resolve_task(name).kind = "Found"
           /\ Value(tasks, resolve_task(name).paths[1]).actions = None
           /\ \E dir_fault \in DirFaults : Trigger(name, <<>>, <<>>, dir_fault)) =>
              /\ last' = Call("trigger",
                      Err(Msg("Task '{}' has no actions() registered.",
                              resolve_task(name).paths[1])))
              /\ UNCHANGED <<contexts, cwd>>]_vars

(* C29: a triggered task runs in the directory it declares, and in the base
   directory when it declares none, whatever the directory of the triggering
   task; when the triggered action returns, the directory of the triggering
   action is current again. *)
C29_TriggeredTaskDirectory ==
    [][/\ (scopes # <<>> /\ Len(scopes') = Len(scopes) + 1) =>
             cwd' = DeclaredDir(Top(scopes').task)
       /\ (Len(scopes) >= 2 /\ scopes' = Pop(scopes)) =>
             cwd' = Top(scopes).previous_dir[1]]_vars

-----------------------------------------------------------------------------
(* The frame stack: its underflow, nesting under a task, declaration order *)

(* C27: an end_task or end_group call that finds the frame stack already empty
   does not return the context-mismatch error that a mismatched end returns
   to the script: the underflow is not an ordinary, recoverable error. *)
C27_EmptyStackPopIsFatal ==
    [][(context_stack = <<>> /\ (EndTask \/ EndGroup)) =>
          ~(~last'.ok /\ last'.err = StackEmptyMsg)]_vars

TaskOnlyOnTop ==
    \A i \in 1..Len(context_stack) - 1 :
        context_stack[i].kind \in {"Root", "Group"}

BeginStep(name) == BeginTask(name) \/ BeginGroup(name)

(* C28 as stated: while a task frame is on top, every begin_task and
   begin_group call fails with "Nested task() calls are not supported." and
   pushes nothing; a task frame is only ever the topmost frame. *)
C28_NoNestingInsideTask ==
    /\ []TaskOnlyOnTop
    /\ [][\A name \in NameInputs :
             (TopKindIn({"Task"}) /\ BeginStep(name)) =>
                 /\ ~last'.ok
                 /\ last'.err = NestedTaskMsg
                 /\ UNCHANGED context_stack]_vars

(* C28, amended: while a task frame is on top, every begin_task and
   begin_group call pushes nothing and fails, with "Nested task() calls are
   not supported." when its name is not blank and with the empty-name message
   of the call when it is; a task frame is only ever the topmost frame. *)
C28_NoNestingInsideTaskNamed ==
    /\ []TaskOnlyOnTop
    /\ [][\A name \in NameInputs :
             (TopKindIn({"Task"}) /\ BeginStep(name)) =>
                 /\ ~last'.ok
                 /\ UNCHANGED context_stack
                 /\ trim(name) # <<>> => last'.err = NestedTaskMsg
                 /\ trim(name) = <<>> =>
                       last'.err.fmt \in {"Task name cannot be empty.",
                                          "Group name cannot be empty."}]_vars

C28_Witness ==
    /\ TopKindIn({"Task"})
    /\ Len(context_stack) = 2
    /\ last.op = "begin_group"
    /\ last.err = NestedTaskMsg

(* The entries registered so far in the scope of the given path: the root's
   for the empty path, else those of the group, finalized or still open *)
EntriesOfScope(parent) ==
    IF parent = <<>> THEN root_entries
    ELSE IF contains_group(parent) THEN Value(groups, parent).entries
    ELSE LET i == CHOOSE i \in 1..Len(context_stack) :
                      /\ context_stack[i].kind = "Group"
                      /\ context_stack[i].full_path = parent
         IN  context_stack[i].group.entries

(* The scopes opened directly in the given scope and closed since, as entries,
   in the order they were opened *)
ClosedChildren(parent) ==
    LET Child(e) == /\ e.parent = parent
                    /\ [kind |-> e.kind, path |-> e.path] \in shadow.closed
        children == SelectSeq(shadow.order, Child)
    IN  [i \in 1..Len(children) |->
            [kind |-> children[i].kind, path |-> children[i].path]]

GroupsOpened ==
    { shadow.order[i].path :
        i \in { j \in 1..Len(shadow.order) : shadow.order[j].kind = "Group" } }

(* C30: along a balanced sequence of begin/end calls, the entries of the root
   and of every group are exactly the tasks and groups opened directly in it
   and closed since, each once, in the order they were opened. *)
C30_EntriesInDeclarationOrder ==
    shadow.balanced =>
        \A parent \in {<<>>} \cup GroupsOpened :
            EntriesOfScope(parent) = ClosedChildren(parent)

C30_Witness ==
    /\ shadow.balanced
    /\ shadow.open = <<>>
    /\ Len(root_entries) = 2
    /\ root_entries[1].path = <<"b">>
    /\ root_entries[2].path = <<"a">>

-----------------------------------------------------------------------------
(* reset *)

(* C31: reset() sets the frame stack to exactly [Root] and clears the script
   root, whatever frames were open, and leaves tasks, groups, root_entries
   and default_task as they were; a task finalized before the reset is still
   there, so declaring its path again right after the reset fails as a
   duplicate and pushes nothing. *)
C31_ResetKeepsRegistry ==
    [][/\ Reset =>
             /\ context_stack' = <<RootFrame>>
             /\ script_root' = None
             /\ UNCHANGED <<tasks, groups, root_entries, default_task>>
       /\ \A name \in NameInputs :
             (/\ last.op = "reset"
              /\ contains_task(trim(name))
              /\ BeginTask(name)) =>
                 /\ last' = Call("begin_task",
                        Err(context_error("Task '{}' is already defined.",
                                          trim(name))))
                 /\ context_stack' = <<RootFrame>>]_vars

C31_Witness ==
    /\ last.op = "reset"
    /\ context_stack = <<RootFrame>>
    /\ script_root = None
    /\ opened >= 2
    /\ Len(tasks) = 1
    /\ groups = <<>>
    /\ Len(root_entries) = 1

-----------------------------------------------------------------------------
(* resolve_group *)

(* The lookup rule on the keys of a map: the identifier is trimmed; an empty
   one is not found; a key equal to it is found; otherwise a dotted one is not
   found, and a bare one is matched against the leaf names of the keys, with
   no, one or several matches. *)
LookupRule(m, identifier) ==
    LET t == trim(identifier)
        hits == { i \in 1..Len(m) : leaf_name(m[i].key) = t }
    IN  IF t = <<>> THEN NotFound
        ELSE IF \E i \in 1..Len(m) : m[i].key = t THEN Found(t)
        ELSE IF contains_dot(t) \/ hits = {} THEN NotFound
        ELSE IF Cardinality(hits) = 1 THEN Found(m[CHOOSE i \in hits : TRUE].key)
        ELSE Ambiguous(LeafMatches(m, t))

(* C32: resolve_group returns on the group keys what resolve_task returns on
   the task keys: both follow the same lookup rule, each on its own map. *)
C32_ResolveGroupAsResolveTask ==
    /\ last.op = "resolve_group" =>
          lookup.result = LookupRule(groups, lookup.identifier)
    /\ last.op = "resolve_task" =>
          lookup.result = LookupRule(tasks, lookup.identifier)

C32_Witness ==
    /\ last.op = "resolve_group"
    /\ lookup.identifier = <<" ", "b", " ">>
    /\ lookup.result.kind = "Ambiguous"
    /\ Len(lookup.result.paths) = 2
    /\ contains_task(<<"b">>)

-----------------------------------------------------------------------------
(* Scope guards *)

(* The frames above Root are those the live guards pushed, in order *)
GuardsMatchFrames ==
    /\ Len(context_stack) = Len(guards) + 1
    /\ context_stack[1] = RootFrame
    /\ \A i \in 1..Len(guards) : context_stack[i + 1].kind = guards[i]

(* C33: while the script drives the frame stack through task() and group(),
   every guard dropped closes the frame its own entry pushed, with an end call
   of its kind that succeeds, innermost first, whether the body returned a
   value or an error; an entry whose begin call fails creates no guard and
   changes no frame; so the frame stack is exactly [Root] once evaluation has
   returned, with or without an error. *)
C33_GuardsCloseTheirScopes ==
    /\ []GuardsMatchFrames
    /\ [](phase # "script" => context_stack = <<RootFrame>>)
    /\ [][/\ ScopeGuardDrop =>
                /\ last'.ok
                /\ Len(context_stack') = Len(context_stack) - 1
                /\ Top(context_stack).kind = Top(guards)
          /\ \A name \in NameInputs, kind \in ScopeKinds :
                (ScopeEnter(name, kind) /\ ~last'.ok) =>
                    UNCHANGED <<context_stack, guards>>]_vars

C33_Witness ==
    /\ phase = "failed"
    /\ context_stack = <<RootFrame>>
    /\ guards = <<>>
    /\ Len(groups) = 1
    /\ Len(tasks) = 1
    /\ root_entries = <<GroupEntry(groups[1].key)>>

-----------------------------------------------------------------------------
(* The frame stack and the entry lists under any sequence of calls *)

(* C34: whatever BuildStack calls have been made, failing ones included, the
   frame stack is not empty and its bottom frame is Root. *)
C34_RootAtBottom ==
    /\ context_stack # <<>>
    /\ context_stack[1].kind = "Root"

(* C35: an end_task or end_group call that fails leaves the frame stack as it
   was before the call, the open frame and its contents included. *)
C35_FailedEndKeepsFrames ==
    [][((EndTask \/ EndGroup) /\ ~last'.ok) =>
          context_stack' = context_stack]_vars

(* Every entry list of the registry: the root's and each finalized group's *)
EntryLists ==
    <<root_entries>> \o [i \in 1..Len(groups) |-> groups[i].value.entries]

(* The positions of the entries: list and index in the list *)
EntryRefs ==
    UNION { { <<l, i>> : i \in 1..Len(EntryLists[l]) } :
            l \in 1..Len(EntryLists) }

(* C36: whatever BuildStack calls have been made, every task entry held in
   root_entries or in the entries of a finalized group names a key of tasks,
   every group entry a key of groups, and no path is named by two entries. *)
C36_EntriesNameRegisteredPaths ==
    /\ \A r \in EntryRefs :
          LET e == EntryLists[r[1]][r[2]] IN
          /\ e.kind = "Task" => contains_task(e.path)
          /\ e.kind = "Group" => contains_group(e.path)
    /\ \A r, q \in EntryRefs :
          EntryLists[r[1]][r[2]].path = EntryLists[q[1]][q[2]].path => r = q

C36_Witness ==
    /\ ~shadow.balanced
    /\ context_stack = <<>>
    /\ Len(tasks) = 1
    /\ Len(groups) = 1
    /\ groups[1].value.entries = <<TaskEntry(tasks[1].key)>>
    /\ root_entries = <<GroupEntry(groups[1].key)>>
    /\ last.op = "end_task"
    /\ ~last.ok

-----------------------------------------------------------------------------
(* Precedence of the binding errors *)

Bindable(i) ==
    \/ GivenByName(i)
    \/ PositionalBefore(i) < Len(prepared.positional)
    \/ BoundParams[i].default # None

FirstUnbindable ==
    CHOOSE i \in 1..Len(BoundParams) :
        ~Bindable(i) /\ \A j \in 1..(i - 1) : Bindable(j)

(* C37: for a task with parameters, a binding to which several errors apply
   reports one of them: "Argument '<name>' is missing." for the first
   parameter in stored order that cannot be bound, else "Unexpected positional
   argument" for the first value left over, else "Unknown argument(s)"; a
   failed binding returns no values. *)
C37_BindingErrorPrecedence ==
    (Bound /\ BoundParams # <<>>) =>
        IF ~AllParamsBindable
        THEN prepared.result =
                PrepareErr(Msg("Argument '{}' is missing.",
                               BoundParams[FirstUnbindable].name))
        ELSE IF ~NoPositionalLeft THEN ExtraPositionalRejected
        ELSE IF UnknownKeys # <<>> THEN UnknownRejected
        ELSE prepared.result.ok

C37_Witness ==
    /\ Bound
    /\ BoundParams # <<>>
    /\ ~NoPositionalLeft
    /\ UnknownKeys # <<>>
    /\ prepared.result.err.fmt = "Unexpected positional argument '{}' provided."
    /\ prepared.result.values = <<>>

-----------------------------------------------------------------------------
(* A scope that fails to start *)

ScopeStartErrors ==
    { "Failed to read current directory: {}",
      "Failed to change working directory to '{}': {}" }

WorkingDirInputs == { None, Some(DirW), Some(DirE), Some(DirWD) }

(* A call of run_task or trigger() that got as far as starting its scope and
   failed there *)
ScopeStartFails ==
    /\ \E name \in ActionNameInputs, args \in ActionArgsInputs,
          dir_fault \in DirFaults :
          \/ RunTask(name, args, dir_fault)
          \/ Trigger(name, args, <<>>, dir_fault)
    /\ ~last'.ok
    /\ last'.err.fmt \in ScopeStartErrors

FailedStartPushesNothing(sc) ==
    ~sc.ok => /\ sc.contexts = contexts
              /\ sc.cwd = cwd
              /\ sc.previous_dir = None

(* C38: when ActionScope::start or start_nested fails (the current directory
   cannot be read, the change to the target directory fails, start_nested is
   called while idle) no context is pushed and no scope exists: contexts,
   is_active and the working directory are as before the call, and the live
   scopes remain one per context, so no later exit pops for the failed one. *)
C38_FailedStartPushesNothing ==
    /\ [](\A working_dir \in WorkingDirInputs, dir_fault \in DirFaults :
            /\ FailedStartPushesNothing(ActionScopeStart(working_dir, dir_fault))
            /\ FailedStartPushesNothing(
                   start_nested(TriggerLabel, working_dir, dir_fault))
            /\ ~is_active =>
                   ~start_nested(TriggerLabel, working_dir, dir_fault).ok)
    /\ [](Len(scopes) = Len(contexts))
    /\ [][ScopeStartFails =>
              /\ UNCHANGED <<contexts, scopes, cwd>>
              /\ is_active' = is_active]_vars

C38_Witness ==
    /\ last.op = "trigger"
    /\ ~last.ok
    /\ last.err.fmt = "Failed to read current directory: {}"
    /\ Len(contexts) = 1
    /\ Len(scopes) = 1

-----------------------------------------------------------------------------
(* Mutexes and closures *)

ClosureInvoked == calls # <<>> /\ Instr.op = "invoke"

(* The innermost call waits for a mutex its own thread holds *)
Blocked ==
    /\ calls # <<>>
    /\ Instr.op = "lock"
    /\ \E i \in 1..Len(held) : held[i] = Instr.m

(* C39: no mutex of the registry, the build stack or the execution state is
   held when a task(), group() or action body is invoked; the build stack
   mutex is never taken while the registry mutex is held; and a call made from
   inside a body never waits for a mutex held further up its own call chain. *)
C39_NoLockHeldOverClosure ==
    /\ ClosureInvoked => held = <<>>
    /\ \A i \in 1..Len(calls) : calls[i].base = 0
    /\ \A i, j \in 1..Len(held) :
           (held[i] = "registry" /\ held[j] = "build_stack") => j < i
    /\ ~Blocked

C39_Witness ==
    /\ Len(calls) = 3
    /\ calls[1].fn = "run_script"
    /\ calls[2].fn = "group"
    /\ calls[3].fn = "task"
    /\ held = <<"build_stack", "registry">>

====
